---- MODULE Spec2Model ----
(***************************************************************************)
(* Model of the gotham-fan-hub data function: the fetch / normalize /       *)
(* fallback pipeline of exports.handler in its revisions                   *)
(*   "part_000" : src/unnamed/part_000                                     *)
(*   "part_001" : src/unnamed/part_001                                     *)
(*   "get1"     : src/netlify/functions/get-gotham-data.js, lines 1-229    *)
(* and of the normalizers those handlers call, together with the roster    *)
(* normalizer of the second revision in get-gotham-data.js (lines 236-252).*)
(***************************************************************************)
EXTENDS Integers, Sequences, FiniteSets, TLC

VARIABLES
    rev,        \* which revision of the handler runs
    pc,         \* position of exports.handler
    req,        \* per outbound source: "idle", "inflight" or "answered"
    resp,       \* per outbound source: the label of the answer the upstream gave
    sent,       \* per outbound source: number of requests issued
    task,       \* per category task: "idle", "pending" or "settled"
    result,     \* per category task: the value its promise settled with
    enrichmentData, \* the index returned by fetchCsvData
    response,   \* what the handler returned
    input,      \* argument of the normalizer under test
    output      \* its return value

vars == <<rev, pc, req, resp, sent, task, result, enrichmentData, response,
          input, output>>

(***************************************************************************)
(* JavaScript values.  Every value is a tagged record, so that values of   *)
(* different JavaScript types can be compared.  Strings come in two        *)
(* kinds: "str" holds an atomic string, "txt" a sequence of units          *)
(* (characters for names, words for labels) for the strings the code       *)
(* edits.  An object is a tagged function from property names to values;   *)
(* a property that is absent is not in its domain.                         *)
(***************************************************************************)
Undefined == [t |-> "undefined"]
Null == [t |-> "null"]
Str(s) == [t |-> "str", v |-> s]
Txt(s) == [t |-> "txt", v |-> s]
Num(n) == [t |-> "num", v |-> n]
Bool(b) == [t |-> "bool", v |-> b]
Arr(s) == [t |-> "arr", v |-> s]
Obj(o) == [t |-> "obj", v |-> o]
\* the outcome of an evaluation that raised
Thrown == [t |-> "throw"]

\* JavaScript truthiness (the operand of !, || and &&, or an if condition)
Truthy(x) ==
    CASE x.t = "undefined" -> FALSE
      [] x.t = "null" -> FALSE
      [] x.t = "str" -> x.v # ""
      [] x.t = "txt" -> x.v # <<>>
      [] x.t = "num" -> x.v # 0
      [] x.t = "bool" -> x.v
      [] OTHER -> TRUE

\* o.f for an object o: the property, or undefined when absent.
\* Reading a property of null or undefined raises; callers test Nullish first.
Get(o, f) == IF o.t = "obj" /\ f \in DOMAIN o.v THEN o.v[f] ELSE Undefined

Nullish(x) == x.t \in {"undefined", "null"}

\* a || b
OrElse(a, b) == IF Truthy(a) THEN a ELSE b

\* Array.isArray
IsArray(x) == x.t = "arr"

(***************************************************************************)
(* Text helpers.  A name is a sequence of characters over the alphabet     *)
(* b B e E e_acute E_acute and the blank; a label is a sequence of words.  *)
(***************************************************************************)
\* String.prototype.toLowerCase on one character of the modelled alphabet
LowerChar(c) ==
    CASE c = "B" -> "b"
      [] c = "E" -> "e"
      [] c = "E_acute" -> "e_acute"
      [] OTHER -> c

\* NFD decomposition followed by removal of the combining marks U+0300-U+036F
StripMarkChar(c) ==
    CASE c = "e_acute" -> "e"
      [] c = "E_acute" -> "E"
      [] OTHER -> c

RECURSIVE TrimLeft(_)
TrimLeft(s) == IF s # <<>> /\ Head(s) = " " THEN TrimLeft(Tail(s)) ELSE s

RECURSIVE TrimRight(_)
TrimRight(s) ==
    IF s # <<>> /\ s[Len(s)] = " " THEN TrimRight(SubSeq(s, 1, Len(s) - 1)) ELSE s

\* String.prototype.trim
Trim(s) == TrimRight(TrimLeft(s))

\* normalizeName: '' for a falsy name, else trim, lower-case, strip diacritics.
\* The result is the character sequence of the key.
normalizeName(name) ==
    IF ~Truthy(name) THEN <<>>
    ELSE LET t == Trim(name.v)
         IN  [i \in 1..Len(t) |-> StripMarkChar(LowerChar(t[i]))]

\* does pat occur in s at position i
OccursAt(s, pat, i) ==
    /\ i + Len(pat) - 1 <= Len(s)
    /\ \A k \in 1..Len(pat) : s[i + k - 1] = pat[k]

\* String.prototype.replace(pat, rep) with a string pattern: the first
\* occurrence only.  Labels are sequences of words.
Replace(s, pat, rep) ==
    LET hits == {i \in 1..Len(s) : OccursAt(s, pat, i)}
    IN  IF hits = {} THEN s
        ELSE LET i == CHOOSE j \in hits : \A k \in hits : j <= k
             IN  SubSeq(s, 1, i - 1) \o rep \o SubSeq(s, i + Len(pat), Len(s))

\* `${x}` inside a template literal
ToText(x) ==
    CASE x.t = "txt" -> x.v
      [] x.t = "undefined" -> <<"undefined">>
      [] x.t = "null" -> <<"null">>
      [] x.t = "num" -> <<ToString(x.v)>>
      [] OTHER -> <<x.v>>

\* the indices of the elements e of arr with e.field === value
Where(arr, field, value) == {i \in 1..Len(arr) : Get(arr[i], field) = value}

\* Array.prototype.find, given the indices whose elements pass the callback:
\* the first of them, or undefined
Find(arr, hits) ==
    IF hits = {} THEN Undefined
    ELSE arr[CHOOSE i \in hits : \A j \in hits : i <= j]

\* does find raise: it reaches an element its callback cannot read (the
\* indices in unreadable) before any element passes
FindRaises(unreadable, hits) ==
    \E i \in unreadable : \A j \in hits : i < j

(***************************************************************************)
(* Roster normalizers                                                      *)
(***************************************************************************)
AttackingMidfielder == <<"Attacking", "Midfielder">>
DefensiveMidfielder == <<"Defensive", "Midfielder">>
Midfielder == <<"Midfielder">>

\* the two chained replace calls on the role label
CollapseRoleAttackingOnly(label) == Replace(label, AttackingMidfielder, Midfielder)

CollapseRole(label) ==
    Replace(Replace(label, AttackingMidfielder, Midfielder),
            DefensiveMidfielder, Midfielder)

\* posMap[position] || 'N/A'
PosCode(position) ==
    CASE position = <<"Goalkeeper">> -> Str("GK")
      [] position = <<"Defender">> -> Str("DF")
      [] position = <<"Midfielder">> -> Str("MF")
      [] position = <<"Forward">> -> Str("FW")
      [] OTHER -> Str("N/A")

\* the candidate keys of a player, in the order the loop tries them
PotentialKeysLastNameFirst(player) ==
    SelectSeq(<<normalizeName(Get(player, "mediaLastName")),
                normalizeName(Get(player, "shortName")),
                normalizeName(Get(player, "shirtName"))>>,
              LAMBDA key : key # <<>>)

PotentialKeys(player) ==
    SelectSeq(<<normalizeName(Get(player, "shirtName")),
                normalizeName(Get(player, "shortName")),
                normalizeName(Get(player, "mediaLastName"))>>,
              LAMBDA key : key # <<>>)

\* a row of the sheet whatever its key, {} for an empty sheet
EnrichedAnyRow(player, index) ==
    IF DOMAIN index.v = {} THEN Obj(<<>>)
    ELSE index.v[CHOOSE k \in DOMAIN index.v : TRUE]

\* the for loop over potentialKeys: the row of the first key found, else {}
Enriched(player, index) ==
    LET keys == PotentialKeys(player)
        hits == {i \in 1..Len(keys) : Truthy(Get(index, keys[i]))}
    IN  IF hits = {} THEN Obj(<<>>)
        ELSE Get(index, keys[CHOOSE i \in hits : \A j \in hits : i <= j])

\* the body of the map callback of processNWSLRosterData, with its try/catch:
\* the canonical entry, or null
RosterEntry(player, index, enrich) ==
    IF Nullish(player)
       \/ ~Truthy(Get(player, "mediaFirstName"))
       \/ ~Truthy(Get(player, "mediaLastName"))
    THEN Null
    ELSE IF Get(player, "roleLabel").t # "txt"
    THEN Null   \* roleLabel.replace raises, the catch returns null
    ELSE LET enriched == Enriched(player, index)
             position == CollapseRole(Get(player, "roleLabel").v)
             base == [name |-> Txt(Get(player, "mediaFirstName").v \o <<" ">>
                                     \o Get(player, "mediaLastName").v),
                      pos |-> PosCode(position),
                      num |-> OrElse(Get(player, "bibNumber"), Str("N/A")),
                      bio |-> Txt(position \o <<"from">>
                                   \o ToText(OrElse(Get(player, "nationality"),
                                                    Txt(<<"N/A">>))))]
         IN  IF enrich
             THEN Obj([name |-> base.name, pos |-> base.pos, num |-> base.num,
                       bio |-> base.bio,
                       headshot |-> OrElse(Get(enriched, "headshotUrl"), Null),
                       pageUrl |-> OrElse(Get(enriched, "playerPageUrl"), Null)])
             ELSE Obj(base)

\* map over the active players stopping at the first entry that is dropped
RECURSIVE MapEntriesUntilBad(_, _, _)
MapEntriesUntilBad(players, index, enrich) ==
    IF players = <<>> THEN <<>>
    ELSE LET e == RosterEntry(Head(players), index, enrich)
         IN  IF e = Null THEN <<>>
             ELSE <<e>> \o MapEntriesUntilBad(Tail(players), index, enrich)

\* activePlayers.map(...).filter(p => p !== null)
MapEntries(players, index, enrich) ==
    SelectSeq([i \in 1..Len(players) |-> RosterEntry(players[i], index, enrich)],
              LAMBDA e : e # Null)

\* processNWSLRosterData of part_000 / part_001 (enrich = TRUE) and of the
\* second revision of get-gotham-data.js (enrich = FALSE, index unused)
processNWSLRosterData(apiData, index, enrich) ==
    IF ~Truthy(apiData) \/ ~Truthy(Get(apiData, "players"))
       \/ ~IsArray(Get(apiData, "players"))
    THEN Arr(<<>>)
    ELSE LET players == Get(apiData, "players").v
         IN  IF \E i \in 1..Len(players) : Nullish(players[i])
             THEN Thrown   \* p.playerStatus of null raises inside filter
             ELSE Arr(MapEntries(
                      SelectSeq(players,
                                LAMBDA p : Get(p, "playerStatus") = Txt(<<"Active">>)),
                      index, enrich))

\* `${player.firstName} ${player.lastName}` and the other fields of the entry
\* built by the first revision of get-gotham-data.js
PersonEntry(playerEntry) ==
    LET player == Get(playerEntry, "person")
        positionInfo == Get(playerEntry, "position")
        position == IF Truthy(positionInfo)
                    THEN CollapseRole(Get(positionInfo, "name").v)
                    ELSE <<"N/A">>
    IN  Obj([name |-> Txt(ToText(Get(player, "firstName")) \o <<" ">>
                          \o ToText(Get(player, "lastName"))),
             pos |-> PosCode(position),
             num |-> OrElse(Get(playerEntry, "jerseyNumber"), Str("N/A")),
             bio |-> Txt(position \o <<"from">>
                         \o ToText(OrElse(Get(player, "birthplace"),
                                          Txt(<<"N/A">>))))])

\* does the map callback raise on this entry: playerEntry.person of a nullish
\* entry, player.firstName of a nullish person, positionInfo.name.replace of
\* a position without a string name
PersonEntryRaises(playerEntry) ==
    \/ Nullish(playerEntry)
    \/ Nullish(Get(playerEntry, "person"))
    \/ /\ Truthy(Get(playerEntry, "position"))
       /\ Get(Get(playerEntry, "position"), "name").t # "txt"

\* processNWSLRosterData of the first revision of get-gotham-data.js
processNWSLRosterDataPerson(apiData) ==
    IF ~Truthy(apiData) \/ ~Truthy(Get(apiData, "data"))
       \/ ~Truthy(Get(Get(apiData, "data"), "roster"))
    THEN Arr(<<>>)
    ELSE LET players == Get(Get(apiData, "data"), "roster").v
         IN  IF \E i \in 1..Len(players) : PersonEntryRaises(players[i])
             THEN Thrown
             ELSE Arr([i \in 1..Len(players) |-> PersonEntry(players[i])])

(***************************************************************************)
(* The enrichment sheet                                                    *)
(***************************************************************************)
\* parseCsv: the rows keyed by their normalized lastName, a later row
\* replacing an earlier one with the same key; rows without lastName skipped
parseCsv(rows) ==
    LET named == {i \in 1..Len(rows) : Truthy(Get(rows[i], "lastName"))}
        keys == {normalizeName(Get(rows[i], "lastName")) : i \in named}
        last(k) == CHOOSE i \in named :
                      /\ normalizeName(Get(rows[i], "lastName")) = k
                      /\ \A j \in named :
                            normalizeName(Get(rows[j], "lastName")) = k => j <= i
    IN  Obj([k \in keys |-> rows[last(k)]])

(***************************************************************************)
(* Standings normalizers                                                   *)
(***************************************************************************)
GOTHAM_ID == Str("nwsl::Football_Team::c83f2ca05aa84c738b5373f0d2a31b39")

\* getStat of processStandingsData: stats.find(s => s.statsId === id)?.statsValue
getStat(stats, id) ==
    Get(Find(stats.v, Where(stats.v, "statsId", Str(id))), "statsValue")

\* `${wins}-${losses}-${draws}`
RecordText(wins, losses, draws) ==
    Txt(ToText(wins) \o <<"-">> \o ToText(losses) \o <<"-">> \o ToText(draws))

\* [rank, points, wins, losses, draws].some(s => s === undefined)
StandingsIncomplete(rank, points, wins, losses, draws) ==
    \E x \in {rank, points, wins, losses, draws} : x = Undefined

\* processStandingsData of part_000 and part_001
processStandingsData(apiData) ==
    LET standings == Get(apiData, "standings")
        first == IF IsArray(standings) /\ Len(standings.v) > 0
                 THEN standings.v[1] ELSE Undefined
        teams == Get(first, "teams")
    IN  IF ~Truthy(teams) THEN Null
        ELSE IF ~IsArray(teams)
                \/ FindRaises({i \in 1..Len(teams.v) : Nullish(teams.v[i])},
                              Where(teams.v, "teamId", GOTHAM_ID))
        THEN Null   \* teams.find raises, the catch returns null
        ELSE LET gothamData == Find(teams.v, Where(teams.v, "teamId", GOTHAM_ID))
             IN  IF ~Truthy(gothamData) \/ ~Truthy(Get(gothamData, "stats"))
                 THEN Null
                 ELSE IF ~IsArray(Get(gothamData, "stats"))
                 THEN Null   \* stats.find raises, the catch returns null
                 ELSE LET stats == Get(gothamData, "stats")
                          rank == getStat(stats, "rank")
                          points == getStat(stats, "points")
                          wins == getStat(stats, "win")
                          losses == getStat(stats, "lose")
                          draws == getStat(stats, "draw")
                      IN  IF StandingsIncomplete(rank, points, wins, losses, draws)
                          THEN Null
                          ELSE Obj([rank |-> rank, points |-> points,
                                    record |-> RecordText(wins, losses, draws)])

\* processStandingsData of the first revision of get-gotham-data.js
processStandingsDataNamed(apiData) ==
    IF ~Truthy(apiData) \/ ~Truthy(Get(apiData, "data"))
       \/ ~Truthy(Get(Get(apiData, "data"), "standings"))
    THEN Null
    ELSE LET standings == Get(Get(apiData, "data"), "standings").v
             teamless == {i \in 1..Len(standings) :
                            Nullish(standings[i]) \/ Nullish(Get(standings[i], "team"))}
             named == {i \in 1..Len(standings) :
                         Get(Get(standings[i], "team"), "name")
                           = Str("NJ/NY Gotham FC")}
         IN  IF FindRaises(teamless, named)
             THEN Thrown   \* team.team.name of a row without team raises
             ELSE LET gothamStanding == Find(standings, named)
                  IN  IF ~Truthy(gothamStanding) THEN Null
                      ELSE Obj([rank |-> Get(gothamStanding, "rank"),
                                points |-> Get(gothamStanding, "points"),
                                record |-> RecordText(Get(gothamStanding, "wins"),
                                                      Get(gothamStanding, "losses"),
                                                      Get(gothamStanding, "draws"))])

(***************************************************************************)
(* Stats normalizers                                                       *)
(***************************************************************************)
\* the double n / d; Frac(a, b) and Frac(c, d) are the same number iff a*d = c*b
Frac(n, d) == [t |-> "frac", n |-> n, d |-> d]

\* processStatsData of part_000 (the 'general' category alone): null when
\* team.stats is missing, else statsId -> {label, value}
processStatsDataGeneral(apiData) ==
    IF ~Truthy(apiData) \/ ~Truthy(Get(apiData, "team"))
       \/ ~Truthy(Get(Get(apiData, "team"), "stats"))
    THEN Null
    ELSE LET statsArray == Get(Get(apiData, "team"), "stats")
         IN  IF ~IsArray(statsArray)
                \/ \E i \in 1..Len(statsArray.v) : Nullish(statsArray.v[i])
             THEN Thrown   \* forEach, or stat.statsId of null, raises
             ELSE Obj([k \in {Get(statsArray.v[i], "statsId").v :
                                 i \in 1..Len(statsArray.v)} |->
                        LET stat == statsArray.v[
                                CHOOSE i \in 1..Len(statsArray.v) :
                                   /\ Get(statsArray.v[i], "statsId").v = k
                                   /\ \A j \in 1..Len(statsArray.v) :
                                        Get(statsArray.v[j], "statsId").v = k => j <= i]
                        IN  Obj([label |-> Get(stat, "statsLabel"),
                                 value |-> Get(stat, "statsValue")])])

LeaderCount == 3

\* getStatLeaders(data, statName, count = 3)
getStatLeaders(data, statName) ==
    IF ~Truthy(data) \/ ~Truthy(Get(data, "data"))
       \/ ~Truthy(Get(Get(data, "data"), "stats"))
    THEN Arr(<<>>)
    ELSE LET stats == Get(Get(data, "data"), "stats").v
             stat == Find(stats, Where(stats, "name", Str(statName)))
         IN  IF ~Truthy(stat) \/ ~Truthy(Get(stat, "persons"))
                \/ Len(Get(stat, "persons").v) = 0
             THEN Arr(<<>>)
             ELSE LET persons == Get(stat, "persons").v
                      n == IF Len(persons) < LeaderCount THEN Len(persons)
                           ELSE LeaderCount
                  IN  Arr([i \in 1..n |->
                            Obj([name |-> Txt(ToText(Get(persons[i], "firstName"))
                                              \o <<" ">>
                                              \o ToText(Get(persons[i], "lastName"))),
                                 total |-> Get(persons[i], "value")])])

\* getStat(data, statName) of processStatsData: the stat object, null or undefined
getTeamStat(data, statName) ==
    IF ~Truthy(data) \/ ~Truthy(Get(data, "data"))
       \/ ~Truthy(Get(Get(data, "data"), "stats"))
    THEN Null
    ELSE LET stats == Get(Get(data, "data"), "stats").v
         IN  Find(stats, Where(stats, "name", Str(statName)))

\* statsResponses.find(r => r.category === c)?.data
CategoryData(statsResponses, c) ==
    Get(Find(statsResponses, Where(statsResponses, "category", Str(c))), "data")

\* merge of two property maps, the right one winning
Merge(f, g) ==
    [k \in (DOMAIN f) \cup (DOMAIN g) |-> IF k \in DOMAIN g THEN g[k] ELSE f[k]]

\* the guard of a derived percentage with >= in place of >
PercentGuardNonNegative(numStat, denStat) ==
    /\ Truthy(denStat) /\ Truthy(numStat)
    /\ Get(Get(denStat, "team"), "value").t = "num"
    /\ Get(Get(denStat, "team"), "value").v >= 0

\* pkAttemptsStat && pkGoalsStat && pkAttemptsStat.team.value > 0
PercentGuard(numStat, denStat) ==
    /\ Truthy(denStat) /\ Truthy(numStat)
    /\ Get(Get(denStat, "team"), "value").t = "num"
    /\ Get(Get(denStat, "team"), "value").v > 0

\* does evaluating the guard and the division raise: .team.value of a stat
\* object that has no team
PercentRaises(numStat, denStat) ==
    /\ Truthy(denStat) /\ Truthy(numStat)
    /\ \/ Nullish(Get(denStat, "team"))
       \/ /\ PercentGuard(numStat, denStat)
          /\ Nullish(Get(numStat, "team"))

\* { total: (num.team.value / den.team.value) * 100 }, when the guard passes
Percent(key, numStat, denStat) ==
    IF PercentGuard(numStat, denStat)
    THEN (key :> Obj([total |-> Frac(Get(Get(numStat, "team"), "value").v * 100,
                                     Get(Get(denStat, "team"), "value").v)]))
    ELSE <<>>

\* processStatsData of the first revision of get-gotham-data.js
processStatsData(statsResponses) ==
    LET standardData == CategoryData(statsResponses, "standard")
        shootingData == CategoryData(statsResponses, "shooting")
        passingData == CategoryData(statsResponses, "passing")
        defendingData == CategoryData(statsResponses, "defending")
        goalkeepingData == CategoryData(statsResponses, "goalkeeping")
        pkAttemptsStat == getTeamStat(shootingData, "penaltyKickAttempts")
        pkGoalsStat == getTeamStat(shootingData, "penaltyKickGoals")
        successfulPassesStat == getTeamStat(passingData, "successfulPasses")
        passesAttemptedStat == getTeamStat(passingData, "passesAttempted")
        goalsConcededStat == getTeamStat(goalkeepingData, "goalsConceded")
        standard ==
            IF Truthy(standardData)
            THEN [goalLeaders |-> getStatLeaders(standardData, "goals"),
                  assistLeaders |-> getStatLeaders(standardData, "assists"),
                  cornerLeaders |-> getStatLeaders(standardData, "corners")]
            ELSE <<>>
        shooting ==
            IF Truthy(shootingData)
            THEN Merge([shotLeaders |-> getStatLeaders(shootingData, "shots"),
                        sotLeaders |-> getStatLeaders(shootingData, "shotsOnTarget")],
                       Percent("penaltyKickPercentage", pkGoalsStat, pkAttemptsStat))
            ELSE <<>>
        passing ==
            IF Truthy(passingData)
            THEN Merge([passLeaders |-> getStatLeaders(passingData, "successfulPasses")],
                       Percent("passingAccuracy", successfulPassesStat,
                               passesAttemptedStat))
            ELSE <<>>
        defending ==
            IF Truthy(defendingData)
            THEN [tackleLeaders |-> getStatLeaders(defendingData, "tacklesWon"),
                  interceptionLeaders |-> getStatLeaders(defendingData, "interceptions"),
                  headedDuelLeaders |-> getStatLeaders(defendingData, "headedDuelsWon")]
            ELSE <<>>
        goalkeeping ==
            IF Truthy(goalkeepingData) /\ Truthy(goalsConcededStat)
            THEN [goalsConceded |->
                     Obj([total |-> Get(Get(goalsConcededStat, "team"), "value")])]
            ELSE <<>>
    IN  IF \/ Truthy(shootingData) /\ PercentRaises(pkGoalsStat, pkAttemptsStat)
           \/ Truthy(passingData)
              /\ PercentRaises(successfulPassesStat, passesAttemptedStat)
           \/ Truthy(goalkeepingData) /\ Truthy(goalsConcededStat)
              /\ Nullish(Get(goalsConcededStat, "team"))
        THEN Thrown
        ELSE Obj(Merge(Merge(Merge(Merge(standard, shooting), passing), defending),
                       goalkeeping))

\* processAllStatsData of part_001
processAllStatsData(statsResponses) ==
    LET generalData == CategoryData(statsResponses, "general")
        standardData == CategoryData(statsResponses, "standard")
        shootingData == CategoryData(statsResponses, "shooting")
        defendingData == CategoryData(statsResponses, "defending")
        general ==
            IF Truthy(generalData) /\ Truthy(Get(generalData, "team"))
               /\ Truthy(Get(Get(generalData, "team"), "stats"))
            THEN processStatsDataGeneral(generalData)
            ELSE Obj(<<>>)
        standard ==
            IF Truthy(standardData)
            THEN [goalLeaders |-> getStatLeaders(standardData, "goals"),
                  assistLeaders |-> getStatLeaders(standardData, "assists")]
            ELSE <<>>
        shooting ==
            IF Truthy(shootingData)
            THEN [shotLeaders |-> getStatLeaders(shootingData, "shots")]
            ELSE <<>>
        defending ==
            IF Truthy(defendingData)
            THEN [tackleLeaders |-> getStatLeaders(defendingData, "tacklesWon"),
                  interceptionLeaders |-> getStatLeaders(defendingData, "interceptions"),
                  headedDuelLeaders |-> getStatLeaders(defendingData, "headedDuelsWon")]
            ELSE <<>>
    IN  IF general = Thrown THEN Thrown
        ELSE Obj(Merge(Merge(Merge(general.v, standard), shooting), defending))

(***************************************************************************)
(* Schedule normalizers                                                    *)
(***************************************************************************)
\* toLocaleDateString / toLocaleTimeString of new Date(matchDate): the
\* formatted text of a date the runtime can parse, "Invalid Date" otherwise
DateText(matchDate) ==
    IF matchDate = Str("2025-10-26T17:00:00Z") THEN Str("Sun, Oct 26")
    ELSE Str("Invalid Date")

TimeText(matchDate) ==
    IF matchDate = Str("2025-10-26T17:00:00Z") THEN Str("5:00 PM")
    ELSE Str("Invalid Date")

\* a filter that keeps the team's home matches only
InvolvesGothamAtHomeOnly(m) ==
    Truthy(Get(m, "homeTeam")) /\ Get(Get(m, "homeTeam"), "teamId") = GOTHAM_ID

\* the filter callback of processScheduleData in part_000
InvolvesGothamById(m) ==
    \/ Truthy(Get(m, "homeTeam")) /\ Get(Get(m, "homeTeam"), "teamId") = GOTHAM_ID
    \/ Truthy(Get(m, "awayTeam")) /\ Get(Get(m, "awayTeam"), "teamId") = GOTHAM_ID

\* does the map callback of part_000 raise on a match that passed the filter
ScheduleEntryByIdRaises(m) ==
    \/ Nullish(Get(m, "homeTeam"))
    \/ /\ Get(Get(m, "homeTeam"), "teamId") = GOTHAM_ID
       /\ Nullish(Get(m, "awayTeam"))

\* the map callback of processScheduleData in part_000
ScheduleEntryById(m) ==
    LET isHome == Get(Get(m, "homeTeam"), "teamId") = GOTHAM_ID
        other == IF isHome THEN Get(m, "awayTeam") ELSE Get(m, "homeTeam")
        opponent == OrElse(Get(other, "teamName"),
                           OrElse(Get(other, "name"), Str("Opponent")))
        location == IF Truthy(Get(m, "venue")) THEN Get(Get(m, "venue"), "name")
                    ELSE OrElse(Get(m, "venueName"),
                                IF isHome THEN Str("Red Bull Arena") ELSE Str("Away"))
        competition == IF Truthy(Get(m, "competition"))
                       THEN OrElse(Get(Get(m, "competition"), "name"),
                                   Get(Get(m, "competition"), "competitionName"))
                       ELSE Str("NWSL")
    IN  Obj([date |-> DateText(Get(m, "matchDate")),
             time |-> TimeText(Get(m, "matchDate")),
             competition |-> competition,
             opponent |-> opponent,
             location |-> location,
             home |-> Bool(isHome)])

\* processScheduleData of part_000: the whole body is inside try/catch
processScheduleDataById(apiData) ==
    IF ~Truthy(apiData) \/ ~Truthy(Get(apiData, "matches")) THEN Arr(<<>>)
    ELSE LET matches == Get(apiData, "matches").v
         IN  IF \E i \in 1..Len(matches) : Nullish(matches[i])
             THEN Arr(<<>>)   \* m.homeTeam of null raises, the catch returns []
             ELSE LET gothamMatches == SelectSeq(matches, InvolvesGothamById)
                  IN  IF \E i \in 1..Len(gothamMatches) :
                            ScheduleEntryByIdRaises(gothamMatches[i])
                      THEN Arr(<<>>)
                      ELSE Arr([i \in 1..Len(gothamMatches) |->
                                   ScheduleEntryById(gothamMatches[i])])

\* does the filter callback of part_001 raise: match.home.shortName, and
\* match.away.shortName when the home side is not the team
FilterByShortNameRaises(match) ==
    \/ Nullish(match)
    \/ Nullish(Get(match, "home"))
    \/ /\ Get(Get(match, "home"), "shortName") # Str("Gotham FC")
       /\ Nullish(Get(match, "away"))

InvolvesGothamByShortName(match) ==
    \/ Get(Get(match, "home"), "shortName") = Str("Gotham FC")
    \/ Get(Get(match, "away"), "shortName") = Str("Gotham FC")

\* s.split('|')[0]: the units before the first separator
RECURSIVE FirstSegment(_)
FirstSegment(s) ==
    IF s = <<>> \/ Head(s) = "|" THEN <<>>
    ELSE <<Head(s)>> \o FirstSegment(Tail(s))

\* networks.join(', ')
RECURSIVE Join(_)
Join(parts) ==
    IF parts = <<>> THEN <<>>
    ELSE IF Len(parts) = 1 THEN parts[1]
    ELSE parts[1] \o <<", ">> \o Join(Tail(parts))

BroadcasterSlots == <<"broadcasterNational1", "broadcasterNational2",
                      "broadcasterNational3">>

\* the networks array and broadcastInfo of part_001
BroadcastInfo(broadcasters) ==
    LET present == SelectSeq(BroadcasterSlots,
                             LAMBDA slot : Truthy(Get(broadcasters, slot)))
        networks == [i \in 1..Len(present) |->
                        FirstSegment(Get(broadcasters, present[i]).v)]
    IN  IF Len(networks) > 0 THEN Txt(Join(networks)) ELSE Txt(<<"TBD">>)

\* does the map callback of part_001 raise on a match that passed the filter
ScheduleEntryByShortNameRaises(match) ==
    \/ /\ Get(Get(match, "home"), "shortName") = Str("Gotham FC")
       /\ Nullish(Get(match, "away"))
    \/ Nullish(Get(match, "editorial"))
    \/ Nullish(Get(Get(match, "editorial"), "broadcasters"))

\* the map callback of processScheduleData in part_001
ScheduleEntryByShortName(match) ==
    LET isHomeGame == Get(Get(match, "home"), "shortName") = Str("Gotham FC")
        opponent == IF isHomeGame THEN Get(Get(match, "away"), "shortName")
                    ELSE Get(Get(match, "home"), "shortName")
    IN  Obj([opponent |-> opponent,
             date |-> Get(match, "matchDateUtc"),
             location |-> Get(match, "stadiumName"),
             broadcast |-> BroadcastInfo(Get(Get(match, "editorial"), "broadcasters")),
             home |-> Bool(isHomeGame)])

\* processScheduleData of part_001 (no try/catch of its own)
processScheduleDataByShortName(apiData) ==
    IF ~Truthy(apiData) \/ ~Truthy(Get(apiData, "matches"))
       \/ ~IsArray(Get(apiData, "matches"))
    THEN Arr(<<>>)
    ELSE LET matches == Get(apiData, "matches").v
         IN  IF \E i \in 1..Len(matches) : FilterByShortNameRaises(matches[i])
             THEN Thrown
             ELSE LET gothamMatches == SelectSeq(matches, InvolvesGothamByShortName)
                  IN  IF \E i \in 1..Len(gothamMatches) :
                            ScheduleEntryByShortNameRaises(gothamMatches[i])
                      THEN Thrown
                      ELSE Arr([i \in 1..Len(gothamMatches) |->
                                   ScheduleEntryByShortName(gothamMatches[i])])

\* does the filter or the map callback of the first revision of
\* get-gotham-data.js raise on a match
ScheduleEntryByNameRaises(match) ==
    \/ Nullish(match)
    \/ Nullish(Get(match, "homeTeam"))
    \/ Nullish(Get(match, "awayTeam"))
    \/ /\ \/ Get(Get(match, "homeTeam"), "name") = Str("NJ/NY Gotham FC")
          \/ Get(Get(match, "awayTeam"), "name") = Str("NJ/NY Gotham FC")
       /\ \/ Nullish(Get(match, "venue"))
          \/ /\ Truthy(Get(match, "broadcasts"))
             /\ \E i \in 1..Len(Get(match, "broadcasts").v) :
                   Nullish(Get(Get(match, "broadcasts").v[i], "network"))

InvolvesGothamByName(match) ==
    \/ Get(Get(match, "homeTeam"), "name") = Str("NJ/NY Gotham FC")
    \/ Get(Get(match, "awayTeam"), "name") = Str("NJ/NY Gotham FC")

\* the map callback of processScheduleData in the first revision of
\* get-gotham-data.js
ScheduleEntryByName(match) ==
    LET isHomeGame == Get(Get(match, "homeTeam"), "name") = Str("NJ/NY Gotham FC")
        broadcasts == Get(match, "broadcasts")
    IN  Obj([opponent |-> IF isHomeGame THEN Get(Get(match, "awayTeam"), "name")
                          ELSE Get(Get(match, "homeTeam"), "name"),
             date |-> Get(match, "matchDate"),
             location |-> Get(Get(match, "venue"), "name"),
             broadcast |->
                IF Truthy(broadcasts) /\ Len(broadcasts.v) > 0
                THEN Txt(Join([i \in 1..Len(broadcasts.v) |->
                                 ToText(Get(Get(broadcasts.v[i], "network"), "name"))]))
                ELSE Txt(<<"TBD">>),
             home |-> Bool(isHomeGame)])

\* processScheduleData of the first revision of get-gotham-data.js
processScheduleDataByName(apiData) ==
    IF ~Truthy(apiData) \/ ~Truthy(Get(apiData, "data"))
       \/ ~Truthy(Get(Get(apiData, "data"), "matches"))
    THEN Arr(<<>>)
    ELSE LET matches == Get(Get(apiData, "data"), "matches").v
         IN  IF \E i \in 1..Len(matches) : ScheduleEntryByNameRaises(matches[i])
             THEN Thrown
             ELSE LET gothamMatches == SelectSeq(matches, InvolvesGothamByName)
                  IN  Arr([i \in 1..Len(gothamMatches) |->
                              ScheduleEntryByName(gothamMatches[i])])

(***************************************************************************)
(* News normalizer (first revision of get-gotham-data.js)                  *)
(***************************************************************************)
\* new URL(link).hostname.replace('www.', '').split('.')[0], capitalised;
\* new URL raises on a link that is no URL
SourceOfLink(link) ==
    CASE link = Str("https://www.espn.com/nwsl/gotham") -> Str("Espn")
      [] link = Str("https://theathletic.com/nwsl/") -> Str("Theathletic")
      [] OTHER -> Thrown

\* new Date().toLocaleDateString(...): the day of the invocation
Today == Str("Nov 3, 2026")

\* the map callback of processNewsData
NewsEntry(article) ==
    LET viaUrl == SourceOfLink(Get(article, "link"))
        sourceName == IF viaUrl # Thrown THEN viaUrl
                      ELSE OrElse(Get(article, "title"), Str("News Source"))
    IN  Obj([source |-> sourceName, date |-> Today,
             title |-> Get(article, "title"),
             snippet |-> Get(article, "snippet"),
             url |-> Get(article, "link")])

\* processNewsData: every article of the search result, no filtering
processNewsData(searchData) ==
    IF ~Truthy(searchData) \/ Len(searchData.v) = 0 THEN Arr(<<>>)
    ELSE IF \E i \in 1..Len(searchData.v) : Nullish(searchData.v[i])
    THEN Thrown   \* article.link of null raises, and so does the catch block
    ELSE Arr([i \in 1..Len(searchData.v) |-> NewsEntry(searchData.v[i])])

(***************************************************************************)
(* Fallback snapshots: the fallbackData literal of each handler            *)
(***************************************************************************)
Revs == {"part_000", "part_001", "get1"}

CategoryKeys == {"roster", "schedule", "stats", "standings"}

fallbackData(r) ==
    CASE r = "part_000" ->
           Obj([roster |-> Arr(<<Obj([name |-> Txt(<<"Ann-Katrin", " ", "Berger">>),
                                      pos |-> Str("GK"), num |-> Num(30),
                                      bio |-> Txt(<<"Goalkeeper", "from", "Germany">>),
                                      headshot |-> Null, pageUrl |-> Null])>>),
                schedule |-> Arr(<<Obj([opponent |-> Str("Example Opponent (Fallback)"),
                                        date |-> Str("Date TBD"),
                                        time |-> Str("Time TBD"),
                                        location |-> Str("Location TBD"),
                                        broadcast |-> Txt(<<"TBD">>),
                                        home |-> Bool(TRUE)])>>),
                stats |-> Obj(("goals-scored" :>
                               Obj([label |-> Str("Goals scored"),
                                    value |-> Str("N/A")]))),
                standings |-> Obj([rank |-> Str("N/A"), points |-> Str("N/A"),
                                   record |-> Txt(<<"N/A">>)])])
      [] r = "part_001" -> Obj(<<>>)   \* { /* Your existing fallback data */ }
      [] r = "get1" ->
           Obj([roster |-> Arr(<<>>),
                schedule |-> Arr(<<Obj([opponent |-> Str("NC Courage"),
                                        date |-> Str("2025-10-26T17:00:00"),
                                        location |-> Str("WakeMed Soccer Park"),
                                        broadcast |-> Txt(<<"NWSL+">>),
                                        home |-> Bool(FALSE)])>>),
                stats |-> Obj([goalLeaders |->
                                 Arr(<<Obj([name |-> Txt(<<"Esther", " ", "Gonzalez">>),
                                            total |-> Num(9)])>>),
                               assistLeaders |->
                                 Arr(<<Obj([name |-> Txt(<<"Rose", " ", "Lavelle">>),
                                            total |-> Num(6)])>>)]),
                standings |-> Obj([rank |-> Num(3), points |-> Num(38),
                                   record |-> Txt(<<"10-6-8">>)]),
                news |-> Arr(<<>>),
                social |-> Arr(<<>>)])

\* fallbackData.<category>: undefined when the literal has no such property
Fallback(r, c) == Get(fallbackData(r), c)

(***************************************************************************)
(* Upstream payloads the handler is run against                            *)
(***************************************************************************)
Active == Txt(<<"Active">>)

ActivePlayer(first, last, role, bib) ==
    Obj([playerStatus |-> Active, mediaFirstName |-> Txt(first),
         mediaLastName |-> Txt(last), roleLabel |-> Txt(role),
         bibNumber |-> Num(bib), nationality |-> Txt(<<"Germany">>)])

\* a body that decodes but has none of the expected structure
ErrorBody == Obj([message |-> Str("Internal Server Error")])

PlayersGood ==
    Obj([players |-> Arr(<<ActivePlayer(<<"B", "e">>, <<"E", "b">>, <<"Goalkeeper">>, 30),
                           ActivePlayer(<<"E", "b">>, <<"B", "e">>,
                                        AttackingMidfielder, 10)>>)])
PlayersNullEntry == Obj([players |-> Arr(<<Null>>)])

PersonEntryOf(first, last, role, num) ==
    Obj([person |-> Obj([firstName |-> Txt(first), lastName |-> Txt(last),
                         birthplace |-> Txt(<<"Germany">>)]),
         position |-> Obj([name |-> Txt(role)]),
         jerseyNumber |-> Num(num)])

PersonsGood ==
    Obj([data |-> Obj([roster |-> Arr(<<PersonEntryOf(<<"B", "e">>, <<"E", "b">>,
                                                      <<"Goalkeeper">>, 30)>>)])])
PersonsNoPerson ==
    Obj([data |-> Obj([roster |-> Arr(<<Obj([jerseyNumber |-> Num(30)])>>)])])

TeamById(id, name) == Obj([teamId |-> id, teamName |-> Str(name)])
OTHER_ID == Str("nwsl::Football_Team::other")

MatchesByIdGood ==
    Obj([matches |-> Arr(<<Obj([homeTeam |-> TeamById(GOTHAM_ID, "Gotham FC"),
                                awayTeam |-> TeamById(OTHER_ID, "NC Courage"),
                                matchDate |-> Str("2025-10-26T17:00:00Z")])>>)])
MatchesByIdNoAway ==
    Obj([matches |-> Arr(<<Obj([homeTeam |-> TeamById(GOTHAM_ID, "Gotham FC"),
                                matchDate |-> Str("2025-10-26T17:00:00Z")])>>)])

Side(shortName) == Obj([shortName |-> Str(shortName)])

MatchByShortName(home, away, b1) ==
    Obj([home |-> Side(home), away |-> Side(away),
         editorial |-> Obj([broadcasters |-> Obj([broadcasterNational1 |-> b1])]),
         matchDateUtc |-> Str("2025-10-26T17:00:00Z"),
         stadiumName |-> Str("Sports Illustrated Stadium")])

MatchesByShortNameGood ==
    Obj([matches |-> Arr(<<MatchByShortName("Gotham FC", "NC Courage",
                                            Txt(<<"CBS", "|", "logo">>))>>)])
MatchesByShortNameNoHome ==
    Obj([matches |-> Arr(<<Obj([away |-> Side("Gotham FC")])>>)])

NamedTeam(name) == Obj([name |-> Str(name)])

MatchesByNameGood ==
    Obj([data |-> Obj([matches |->
        Arr(<<Obj([homeTeam |-> NamedTeam("NC Courage"),
                   awayTeam |-> NamedTeam("NJ/NY Gotham FC"),
                   matchDate |-> Str("2025-10-26T17:00:00"),
                   venue |-> Obj([name |-> Str("WakeMed Soccer Park")])])>>)])])
MatchesByNameNoVenue ==
    Obj([data |-> Obj([matches |->
        Arr(<<Obj([homeTeam |-> NamedTeam("NC Courage"),
                   awayTeam |-> NamedTeam("NJ/NY Gotham FC"),
                   matchDate |-> Str("2025-10-26T17:00:00")])>>)])])

StatIds == <<"rank", "points", "win", "lose", "draw">>
StatValue(id) ==
    CASE id = "rank" -> 3 [] id = "points" -> 38 [] id = "win" -> 10
      [] id = "lose" -> 6 [] id = "draw" -> 8

\* the standings table with the team's row carrying the stats named in ids
StandingsTable(ids) ==
    Obj([standings |-> Arr(<<Obj([teams |-> Arr(<<
        Obj([teamId |-> OTHER_ID, stats |-> Arr(<<>>)]),
        Obj([teamId |-> GOTHAM_ID,
             stats |-> Arr([i \in 1..Len(ids) |->
                              Obj([statsId |-> Str(ids[i]),
                                   statsValue |-> Num(StatValue(ids[i]))])])])>>)])>>)])

\* the standings rows of the first revision of get-gotham-data.js, the
\* team's row carrying the properties named in props
StandingsRows(props) ==
    Obj([data |-> Obj([standings |-> Arr(<<
        Obj([team |-> NamedTeam("NC Courage")]),
        Obj(Merge([team |-> NamedTeam("NJ/NY Gotham FC")],
                  [k \in props |->
                      CASE k = "rank" -> Num(3) [] k = "points" -> Num(38)
                        [] k = "wins" -> Num(10) [] k = "losses" -> Num(6)
                        [] k = "draws" -> Num(8)]))>>)])])

GeneralStats(n) ==
    Obj([team |-> Obj([stats |-> Arr(<<Obj([statsId |-> Str("goals-scored"),
                                            statsLabel |-> Str("Goals scored"),
                                            statsValue |-> Num(n)])>>)])])

Person(first, last, value) ==
    Obj([firstName |-> Txt(first), lastName |-> Txt(last), value |-> Num(value)])

LeaderStat(name, persons) == Obj([name |-> Str(name), persons |-> Arr(persons)])
TeamStat(name, value) == Obj([name |-> Str(name), team |-> Obj([value |-> Num(value)])])
StatsOf(stats) == Obj([data |-> Obj([stats |-> Arr(stats)])])

\* a decodable body of the stats endpoint for one category
PartGood(part) ==
    CASE part = "general" -> GeneralStats(40)
      [] part = "standard" ->
           StatsOf(<<LeaderStat("goals", <<Person(<<"E", "b">>, <<"B", "e">>, 9)>>)>>)
      [] part = "shooting" ->
           StatsOf(<<LeaderStat("shots", <<Person(<<"E", "b">>, <<"B", "e">>, 30)>>),
                     TeamStat("penaltyKickAttempts", 4),
                     TeamStat("penaltyKickGoals", 3)>>)
      [] part = "passing" ->
           StatsOf(<<TeamStat("successfulPasses", 3), TeamStat("passesAttempted", 4)>>)
      [] part = "defending" ->
           StatsOf(<<LeaderStat("tacklesWon", <<Person(<<"B", "e">>, <<"E", "b">>, 7)>>)>>)
      [] part = "goalkeeping" -> StatsOf(<<TeamStat("goalsConceded", 20)>>)

Article(title, link) ==
    Obj([title |-> Str(title), snippet |-> Str("..."), link |-> Str(link)])

SearchGood ==
    Arr(<<Article("Gotham FC clinch playoff berth", "https://www.espn.com/nwsl/gotham")>>)

\* the payloads a 2xx answer of a source may carry: the first of each pair is
\* well formed, the others lack structure the normalizer expects
GoodBody(r, src) ==
    CASE src = "roster" -> IF r = "get1" THEN PersonsGood ELSE PlayersGood
      [] src = "schedule" ->
           (CASE r = "part_000" -> MatchesByIdGood
              [] r = "part_001" -> MatchesByShortNameGood
              [] r = "get1" -> MatchesByNameGood)
      [] src = "standings" ->
           IF r = "get1" THEN StandingsRows({"rank", "points", "wins", "losses", "draws"})
           ELSE StandingsTable(StatIds)
      [] src = "stats" -> GeneralStats(40)
      [] OTHER -> PartGood(src)

\* a decodable body with a defect inside the expected structure: a null
\* list entry, a missing sub-object, a missing field
HasMalformed(r, src) == src \in {"roster", "schedule", "standings", "shooting"}

MalformedBody(r, src) ==
    CASE src = "roster" -> IF r = "get1" THEN PersonsNoPerson ELSE PlayersNullEntry
      [] src = "schedule" ->
           (CASE r = "part_000" -> MatchesByIdNoAway
              [] r = "part_001" -> MatchesByShortNameNoHome
              [] r = "get1" -> MatchesByNameNoVenue)
      [] src = "standings" ->
           IF r = "get1" THEN StandingsRows({"rank", "points", "wins", "losses"})
           ELSE StandingsTable(SubSeq(StatIds, 1, 4))
      [] src = "shooting" ->
           StatsOf(<<Obj([name |-> Str("penaltyKickAttempts")]),
                     Obj([name |-> Str("penaltyKickGoals")])>>)
      [] OTHER -> ErrorBody

CsvRow(lastName, n) ==
    Obj([lastName |-> Txt(lastName), headshotUrl |-> Str("headshot-" \o n),
         playerPageUrl |-> Str("page-" \o n)])

SheetGood == Arr(<<CsvRow(<<"E", "b">>, "1"), CsvRow(<<" ", "B", "E_acute">>, "2")>>)

(***************************************************************************)
(* Upstream outcomes                                                       *)
(***************************************************************************)
\* bound: how many sources may answer with anything but a well-formed 2xx
MaxFaults == 2

\* an answer: what fetch and the decoding of the body give the caller
Ok(body) == [kind |-> "ok", body |-> body]                 \* 2xx, decodable body
BadStatus(body) == [kind |-> "status", body |-> body]      \* non-2xx, decodable body
NetworkError == [kind |-> "neterr", body |-> Undefined]    \* fetch rejects
BadBody == [kind |-> "badbody", body |-> Undefined]        \* 2xx, body does not decode

AllSources == {"csv", "roster", "schedule", "standings", "stats", "news",
               "general", "standard", "shooting", "passing", "defending",
               "goalkeeping"}

\* The answers a source may give, by label.  resp holds the label; "none"
\* stands for no answer yet.  A request of fetchAllStats never has its status
\* read, so its body without structure is modelled once, as the body of a
\* non-success answer.
Labels(r, src) ==
    CASE src = "csv" -> {"good", "status", "neterr", "badbody"}
      [] src = "news" -> {"good", "empty", "neterr"}
      [] src \in CategoryKeys ->
           {"good", "shapeless", "status", "neterr", "badbody"}
           \cup (IF HasMalformed(r, src) THEN {"malformed"} ELSE {})
      [] OTHER ->
           {"good", "status", "neterr", "badbody"}
           \cup (IF HasMalformed(r, src) THEN {"malformed"} ELSE {})

Answer(r, src, label) ==
    CASE label = "good" ->
           (CASE src = "csv" -> Ok(SheetGood)
              [] src = "news" -> Ok(SearchGood)
              [] OTHER -> Ok(GoodBody(r, src)))
      [] label = "empty" -> Ok(Arr(<<>>))
      [] label = "shapeless" -> Ok(ErrorBody)
      [] label = "malformed" -> Ok(MalformedBody(r, src))
      [] label = "status" -> BadStatus(ErrorBody)
      [] label = "neterr" -> NetworkError
      [] label = "badbody" -> BadBody

Faults(p) == Cardinality({src \in AllSources : p[src] \notin {"none", "good"}})

(***************************************************************************)
(* The fetchers of exports.handler                                         *)
(***************************************************************************)
\* the normalizer each handler passes to fetchAndProcess / fetchData
Processor(r, c, data, index) ==
    CASE c = "roster" ->
           IF r = "get1" THEN processNWSLRosterDataPerson(data)
           ELSE processNWSLRosterData(data, index, TRUE)
      [] c = "schedule" ->
           (CASE r = "part_000" -> processScheduleDataById(data)
              [] r = "part_001" -> processScheduleDataByShortName(data)
              [] r = "get1" -> processScheduleDataByName(data))
      [] c = "standings" ->
           IF r = "get1" THEN processStandingsDataNamed(data)
           ELSE processStandingsData(data)
      [] c = "stats" -> processStatsDataGeneral(data)

\* the emptiness test after the normalizer: it raises in part_001 and in
\* get-gotham-data.js; in part_000 the throw is commented out
EmptyRaises(r, processedData) ==
    /\ r # "part_000"
    /\ \/ ~Truthy(processedData)
       \/ IsArray(processedData) /\ Len(processedData.v) = 0

\* the try block of fetchAndProcess / fetchData: the value returned, or Thrown
TryFetchAndProcess(r, c, o, index) ==
    IF o.kind # "ok" THEN Thrown   \* fetch rejects, !response.ok, json() rejects
    ELSE LET processedData == Processor(r, c, o.body, index)
         IN  IF processedData = Thrown \/ EmptyRaises(r, processedData)
             THEN Thrown
             ELSE processedData

\* fetchAndProcess without its catch
fetchAndProcessUncaught(r, c, o, index) == TryFetchAndProcess(r, c, o, index)

\* fetchAndProcess (part_000, part_001) / fetchData (get-gotham-data.js)
fetchAndProcess(r, c, o, index) ==
    LET attempt == TryFetchAndProcess(r, c, o, index)
    IN  IF attempt = Thrown THEN Fallback(r, c) ELSE attempt

\* fetchCsvData without its catch and its status test
fetchCsvDataUncaught(o) ==
    IF o.kind = "ok" THEN parseCsv(o.body.v) ELSE Thrown

\* fetchCsvData: {} unless the sheet was fetched and parsed
fetchCsvData(o) ==
    IF o.kind = "ok" THEN parseCsv(o.body.v) ELSE Obj(<<>>)

\* the categories fetchAllStats requests, in order
StatsParts(r) ==
    CASE r = "part_001" -> <<"general", "standard", "shooting", "defending">>
      [] r = "get1" -> <<"standard", "shooting", "passing", "defending", "goalkeeping">>
      [] OTHER -> <<>>

PartSet(r) == {StatsParts(r)[i] : i \in 1..Len(StatsParts(r))}

\* fetch(url).then(res => res.json()): rejects on a network error or an
\* undecodable body; the status is not looked at
PartRejects(label) == label \in {"neterr", "badbody"}

\* has the Promise.all of fetchAllStats settled, given the answers so far
StatsSettled(r, p) ==
    \/ \E part \in PartSet(r) : PartRejects(p[part])
    \/ \A part \in PartSet(r) : p[part] # "none"

\* the normalizer of fetchAllStats applied to the decoded bodies, whatever
\* status they came with
StatsProcessed(r, p) ==
    LET parts == StatsParts(r)
        statsResponses == [i \in 1..Len(parts) |->
                             Obj([category |-> Str(parts[i]),
                                  data |-> Answer(r, parts[i], p[parts[i]]).body])]
    IN  IF r = "get1" THEN processStatsData(statsResponses)
        ELSE processAllStatsData(statsResponses)

\* a fetchAllStats that normalizes whatever sub-categories resolved, a
\* sub-category that did not counting as a body without stats
fetchAllStatsBestEffort(r, p) ==
    LET resolved == [src \in AllSources |->
                       IF p[src] = "none" \/ PartRejects(p[src]) THEN "status"
                       ELSE p[src]]
        processed == StatsProcessed(r, resolved)
    IN  IF processed = Thrown THEN Fallback(r, "stats") ELSE processed

\* fetchAllStats, once its Promise.all has settled
fetchAllStats(r, p) ==
    IF \E part \in PartSet(r) : PartRejects(p[part])
    THEN Fallback(r, "stats")
    ELSE LET processed == StatsProcessed(r, p)
         IN  IF processed = Thrown THEN Fallback(r, "stats") ELSE processed

\* fetchLiveNews
fetchLiveNews(r, o) ==
    IF o.kind # "ok" THEN Fallback(r, "news")
    ELSE LET processedNews == processNewsData(o.body)
         IN  IF processedNews = Thrown \/ Len(processedNews.v) = 0
             THEN Fallback(r, "news")
             ELSE processedNews

\* JSON.stringify: a property whose value is undefined is left out, an
\* undefined array element becomes null
RECURSIVE Json(_)
Json(x) ==
    CASE x.t = "obj" ->
           Obj([k \in {j \in DOMAIN x.v : x.v[j] # Undefined} |-> Json(x.v[k])])
      [] x.t = "arr" ->
           Arr([i \in 1..Len(x.v) |->
                  IF x.v[i] = Undefined THEN Null ELSE Json(x.v[i])])
      [] OTHER -> x

\* a handler that takes the roster and the schedule from each other's task
ResponseDataSwapped(r, res) ==
    Obj([roster |-> res["schedule"], schedule |-> res["roster"],
         stats |-> res["stats"], standings |-> res["standings"]])

\* the object each handler serialises, from the settled results
ResponseData(r, res) ==
    CASE r = "part_000" ->
           LET schedule == res["schedule"]
               finalSchedule == IF Truthy(schedule) /\ IsArray(schedule)
                                   /\ Len(schedule.v) > 0
                                THEN schedule ELSE Fallback(r, "schedule")
           IN  Obj([roster |-> res["roster"], schedule |-> finalSchedule,
                    stats |-> res["stats"], standings |-> res["standings"]])
      [] r = "part_001" ->
           Obj([roster |-> res["roster"], schedule |-> res["schedule"],
                stats |-> res["stats"], standings |-> res["standings"]])
      [] r = "get1" ->
           Obj([roster |-> res["roster"], schedule |-> res["schedule"],
                stats |-> res["stats"], standings |-> res["standings"],
                news |-> res["news"], social |-> Fallback(r, "social")])

(***************************************************************************)
(* exports.handler                                                         *)
(***************************************************************************)
AllTasks == {"csv", "roster", "schedule", "stats", "standings", "news"}

\* a fan-out that also starts the roster task the handler starts afterwards
FanOutWithRoster(r) ==
    IF r = "get1" THEN {"roster", "schedule", "stats", "standings", "news"}
    ELSE {"stats", "standings", "schedule", "roster"}

\* the tasks handed to Promise.all
FanOut(r) ==
    IF r = "get1" THEN {"roster", "schedule", "stats", "standings", "news"}
    ELSE {"stats", "standings", "schedule"}

\* the requests a task issues when it is called
TaskSources(r, t) ==
    IF t = "stats" /\ StatsParts(r) # <<>> THEN PartSet(r) ELSE {t}

SourcesOf(r, tasks) == UNION {TaskSources(r, t) : t \in tasks}

PendingResponse == [state |-> "pending", statusCode |-> 0, body |-> Null]
RejectedResponse == [state |-> "rejected", statusCode |-> 0, body |-> Null]
\* return { statusCode: 200, body: JSON.stringify(...) }
Returned(r, res) ==
    [state |-> "fulfilled", statusCode |-> 200, body |-> Json(ResponseData(r, res))]

\* a join that waits for the schedule task only
AwaitedScheduleOnly(r, at) ==
    CASE at = "awaitCsv" -> {"csv"}
      [] at = "awaitAll" -> {"schedule"}
      [] at = "awaitRoster" -> {"roster"}
      [] OTHER -> {}

\* what the handler is awaiting at each position
Awaited(r, at) ==
    CASE at = "awaitCsv" -> {"csv"}
      [] at = "awaitAll" -> FanOut(r)
      [] at = "awaitRoster" -> {"roster"}
      [] OTHER -> {}

\* The rest of an event: the promise reactions that run after the event's own
\* effects (t2, r2, q2, p2: task, result, req, resp).  When everything the
\* handler awaits has settled it runs on to its next await or to its return;
\* a rejected promise makes the handler reject.
Resume(t2, r2, q2, p2) ==
    LET awaited == Awaited(rev, pc)
        rejected == \E t \in awaited : t2[t] = "settled" /\ r2[t] = Thrown
        allSettled == \A t \in awaited : t2[t] = "settled"
        next == IF pc = "awaitCsv" THEN FanOut(rev) ELSE {"roster"}
    IN  /\ resp' = p2
        /\ result' = r2
        /\ rev' = rev
        /\ IF rejected
           THEN /\ pc' = "done"
                /\ response' = RejectedResponse
                /\ task' = t2 /\ req' = q2
                /\ UNCHANGED <<sent, enrichmentData>>
           ELSE IF ~allSettled
           THEN /\ task' = t2 /\ req' = q2
                /\ UNCHANGED <<pc, response, sent, enrichmentData>>
           ELSE IF pc = "awaitCsv" \/ (pc = "awaitAll" /\ rev # "get1")
           THEN /\ pc' = IF pc = "awaitCsv" THEN "awaitAll" ELSE "awaitRoster"
                /\ enrichmentData' = IF pc = "awaitCsv" THEN r2["csv"]
                                     ELSE enrichmentData
                /\ task' = [t \in AllTasks |-> IF t \in next THEN "pending" ELSE t2[t]]
                /\ req' = [src \in AllSources |->
                             IF src \in SourcesOf(rev, next) THEN "inflight"
                             ELSE q2[src]]
                /\ sent' = [src \in AllSources |->
                              IF src \in SourcesOf(rev, next) THEN sent[src] + 1
                              ELSE sent[src]]
                /\ response' = response
           ELSE /\ pc' = "done"
                /\ response' = Returned(rev, r2)
                /\ task' = t2 /\ req' = q2
                /\ UNCHANGED <<sent, enrichmentData>>

\* the handler is invoked and runs to its first await
Start ==
    /\ pc = "start"
    /\ LET first == IF rev = "get1" THEN FanOut(rev) ELSE {"csv"}
       IN  /\ pc' = IF rev = "get1" THEN "awaitAll" ELSE "awaitCsv"
           /\ task' = [t \in AllTasks |-> IF t \in first THEN "pending" ELSE task[t]]
           /\ req' = [src \in AllSources |->
                        IF src \in SourcesOf(rev, first) THEN "inflight" ELSE req[src]]
           /\ sent' = [src \in AllSources |->
                         IF src \in SourcesOf(rev, first) THEN sent[src] + 1
                         ELSE sent[src]]
    /\ UNCHANGED <<rev, resp, result, enrichmentData, response, input, output>>

Answerable(src, label) ==
    /\ pc # "done"
    /\ req[src] = "inflight"
    /\ label = "good" \/ Faults(resp) < MaxFaults

\* the sheet answers: fetchCsvData settles and the handler fans out
CsvResponds ==
    \E label \in Labels(rev, "csv") :
        /\ Answerable("csv", label)
        /\ Resume([task EXCEPT !["csv"] = "settled"],
                  [result EXCEPT !["csv"] = fetchCsvData(Answer(rev, "csv", label))],
                  [req EXCEPT !["csv"] = "answered"],
                  [resp EXCEPT !["csv"] = label])
        /\ UNCHANGED <<input, output>>

\* a source requested through fetchAndProcess / fetchData answers
CategoryResponds(c) ==
    \E label \in Labels(rev, c) :
        /\ Answerable(c, label)
        /\ Resume([task EXCEPT ![c] = "settled"],
                  [result EXCEPT ![c] = fetchAndProcess(rev, c, Answer(rev, c, label),
                                                        enrichmentData)],
                  [req EXCEPT ![c] = "answered"],
                  [resp EXCEPT ![c] = label])
        /\ UNCHANGED <<input, output>>

\* one of the requests of fetchAllStats answers
StatsPartResponds(part) ==
    \E label \in Labels(rev, part) :
        /\ Answerable(part, label)
        /\ LET p2 == [resp EXCEPT ![part] = label]
               settles == task["stats"] = "pending" /\ StatsSettled(rev, p2)
           IN  Resume(IF settles THEN [task EXCEPT !["stats"] = "settled"] ELSE task,
                      IF settles THEN [result EXCEPT !["stats"] = fetchAllStats(rev, p2)]
                      ELSE result,
                      [req EXCEPT ![part] = "answered"],
                      p2)
        /\ UNCHANGED <<input, output>>

\* the search of fetchLiveNews answers
NewsResponds ==
    \E label \in Labels(rev, "news") :
        /\ Answerable("news", label)
        /\ Resume([task EXCEPT !["news"] = "settled"],
                  [result EXCEPT !["news"] = fetchLiveNews(rev, Answer(rev, "news", label))],
                  [req EXCEPT !["news"] = "answered"],
                  [resp EXCEPT !["news"] = label])
        /\ UNCHANGED <<input, output>>

Init ==
    /\ rev \in Revs
    /\ pc = "start"
    /\ req = [src \in AllSources |-> "idle"]
    /\ resp = [src \in AllSources |-> "none"]
    /\ sent = [src \in AllSources |-> 0]
    /\ task = [t \in AllTasks |-> "idle"]
    /\ result = [t \in AllTasks |-> Undefined]
    /\ enrichmentData = Obj(<<>>)
    /\ response = PendingResponse
    /\ input = Null
    /\ output = Null

Next ==
    \/ Start
    \/ CsvResponds
    \/ \E c \in {"roster", "schedule", "standings", "stats"} : CategoryResponds(c)
    \/ \E part \in PartSet(rev) : StatsPartResponds(part)
    \/ NewsResponds

Spec == Init /\ [][Next]_vars

(***************************************************************************)
(* The handler with an upstream that may stay silent.  fetch is called     *)
(* without a signal or a timer, so a request whose source never answers    *)
(* stays pending for ever: nothing in the code settles it.  The runtime    *)
(* runs every continuation that is ready and every source that is not      *)
(* silent answers in the end, which is what the fairness conditions say.   *)
(***************************************************************************)
\* the source of a pending request will never answer it
NeverResponds(src) ==
    /\ pc # "done"
    /\ req[src] = "inflight"
    /\ \A other \in AllSources : req[other] # "silent"
    /\ req' = [req EXCEPT ![src] = "silent"]
    /\ UNCHANGED <<rev, pc, resp, sent, task, result, enrichmentData, response,
                   input, output>>

\* every source that answers answers well: the silent one is the only fault
NextTimeouts ==
    \/ Next /\ Faults(resp') = 0
    \/ \E src \in AllSources : NeverResponds(src)

\* the requests of fetchAllStats of any revision
AllParts == AllSources \ (CategoryKeys \cup {"csv", "news"})

SpecTimeouts ==
    /\ Init
    /\ [][NextTimeouts]_vars
    /\ WF_vars(Start)
    /\ WF_vars(CsvResponds)
    /\ WF_vars(NewsResponds)
    /\ \A c \in CategoryKeys : WF_vars(CategoryResponds(c))
    /\ \A part \in AllParts : WF_vars(StatsPartResponds(part))

(***************************************************************************)
(* Properties of exports.handler                                           *)
(***************************************************************************)
\* the handler has returned its response
Fulfilled == pc = "done" /\ response.state = "fulfilled"

\* the value of a key of the returned body, undefined when the key is missing
Out(c) == Get(response.body, c)

\* the source did not deliver a decodable body with a success status
FetchFailed(src) == resp[src] \in {"status", "neterr", "badbody"}

\* the keys the handler of a revision puts in the body from its fetchers
OutputKeys(r) == CategoryKeys \cup (IF r = "get1" THEN {"news"} ELSE {})

\* the settled results when every source answers with a well-formed body
LiveResults(r) ==
    LET index == IF r = "get1" THEN Obj(<<>>)
                 ELSE fetchCsvData(Answer(r, "csv", "good"))
    IN  [t \in AllTasks |->
           CASE t = "csv" -> index
             [] t = "news" -> fetchLiveNews(r, Answer(r, "news", "good"))
             [] t = "stats" /\ StatsParts(r) # <<>> ->
                  fetchAllStats(r, [src \in AllSources |-> "good"])
             [] OTHER -> fetchAndProcess(r, t, Answer(r, t, "good"), index)]

\* the body returned when every source answers with a well-formed body
LiveBody(r) == Json(ResponseData(r, LiveResults(r)))

\* C1: whatever the sources answered, the returned body holds every category
\* key (roster, schedule, stats, standings) with a value that is neither
\* missing, undefined nor null.
C1_AlwaysPresent ==
    Fulfilled => \A c \in CategoryKeys : ~Nullish(Out(c))

\* C2: when the fetch of exactly one category failed (non-success status,
\* network error or undecodable body) and every other source answered well,
\* the failed category's output is its fallback snapshot and every other
\* category's output is the live data of the run without failure.
C2_FallbackIsolation ==
    Fulfilled =>
        \A c \in CategoryKeys :
            (/\ \E src \in TaskSources(rev, c) : FetchFailed(src)
             /\ \A src \in TaskSources(rev, c) : FetchFailed(src) \/ resp[src] = "good"
             /\ \A src \in AllSources \ TaskSources(rev, c) :
                    resp[src] \in {"none", "good"})
            => /\ Out(c) = Json(Fallback(rev, c))
               /\ \A d \in CategoryKeys \ {c} : Out(d) = Get(LiveBody(rev), d)

\* C3: once the handler is done it has returned statusCode 200: no upstream
\* outcome makes it reject or return another status.
C3_Status200 ==
    pc = "done" => response.state = "fulfilled" /\ response.statusCode = 200

\* the handler returned after the sheet fetch failed and the roster
\* normalizer raised on a null list entry
C3_AbsorbedFailures ==
    /\ Fulfilled
    /\ FetchFailed("csv")
    /\ resp["roster"] = "malformed"
    /\ Processor(rev, "roster", Answer(rev, "roster", "malformed").body,
                 enrichmentData) = Thrown

\* EMPTY: null, an empty list, or an object none of whose fields is usable
IsEmptyResult(x) ==
    \/ Nullish(x)
    \/ IsArray(x) /\ Len(x.v) = 0
    \/ /\ x.t = "obj"
       /\ \A k \in DOMAIN x.v : IsArray(x.v[k]) /\ Len(x.v[k].v) = 0

\* every request of the category was answered with a success status and a
\* decodable body
FetchSucceeded(c) ==
    \A src \in TaskSources(rev, c) : resp[src] \in {"good", "shapeless", "malformed"}

\* what the category's normalizer made of the bodies received
Normalized(c) ==
    IF c = "stats" /\ StatsParts(rev) # <<>> THEN StatsProcessed(rev, resp)
    ELSE Processor(rev, c, Answer(rev, c, resp[c]).body, enrichmentData)

\* C4: whenever a category's fetch succeeded and its normalizer yielded EMPTY,
\* the category's output is the fallback snapshot, not the empty result.
C4_EmptyYieldsFallback ==
    Fulfilled =>
        \A c \in CategoryKeys :
            FetchSucceeded(c) /\ IsEmptyResult(Normalized(c))
            => Out(c) = Json(Fallback(rev, c))

\* C5: whenever a request of a category, a request of fetchAllStats included,
\* met a non-success status, a network error or an undecodable body, the
\* category's output is its fallback snapshot.
C5_FailureYieldsFallback ==
    Fulfilled =>
        \A c \in OutputKeys(rev) :
            (\E src \in TaskSources(rev, c) : FetchFailed(src))
            => Out(c) = Json(Fallback(rev, c))

\* C6: when the standings payload lacks draws for the team, the standings
\* output is the fallback standings snapshot, never null and never a record
\* with a missing component.
C6_StandingsAllOrNothing ==
    Fulfilled /\ resp["standings"] = "malformed"
    => /\ Out("standings") = Json(Fallback(rev, "standings"))
       /\ Out("standings") # Null

(***************************************************************************)
(* The normalizers called on their own                                     *)
(***************************************************************************)
\* bound: the longest players list a normalizer is called with
MaxPlayers == 3
\* bound: the largest value of a team stat
MaxStat == 2

\* an active player with the name fields the enrichment loop reads; a field
\* given as <<>> is absent from the object
NamedPlayer(first, shirt, short, last, role, bib) ==
    Obj(Merge(Merge([playerStatus |-> Active, mediaFirstName |-> Txt(first),
                     mediaLastName |-> Txt(last), roleLabel |-> Txt(role),
                     bibNumber |-> Num(bib)],
                    IF shirt = <<>> THEN <<>> ELSE [shirtName |-> Txt(shirt)]),
              IF short = <<>> THEN <<>> ELSE [shortName |-> Txt(short)]))

\* entries of apiData.players: well formed ones, entries lacking name
\* fields, an inactive one, one without roleLabel, and null
PlayerPool ==
    {NamedPlayer(<<"B">>, <<>>, <<>>, <<"E", "b">>, <<"Goalkeeper">>, 1),
     NamedPlayer(<<"E">>, <<"B", "E_acute">>, <<>>, <<"E", "b">>,
                 AttackingMidfielder, 2),
     NamedPlayer(<<"b">>, <<>>, <<" ", "B", "e">>, <<"E", "b">>,
                 DefensiveMidfielder, 3),
     NamedPlayer(<<"e">>, <<"b", "b">>, <<"B", "e">>, <<"E", "b">>, Midfielder, 4),
     Obj([playerStatus |-> Active, roleLabel |-> Txt(<<"Forward">>),
          bibNumber |-> Num(5)]),
     Obj([playerStatus |-> Active, mediaFirstName |-> Txt(<<"B">>),
          roleLabel |-> Txt(<<"Forward">>), bibNumber |-> Num(6)]),
     Obj([playerStatus |-> Txt(<<"Inactive">>), mediaFirstName |-> Txt(<<"B">>),
          mediaLastName |-> Txt(<<"B", "e">>), roleLabel |-> Txt(<<"Defender">>),
          bibNumber |-> Num(7)]),
     Obj([playerStatus |-> Active, mediaFirstName |-> Txt(<<"B">>),
          mediaLastName |-> Txt(<<"B", "e">>), bibNumber |-> Num(8)]),
     NamedPlayer(<<"E_acute">>, <<>>, <<>>, <<"B", "e">>, <<"Head", "Coach">>, 9),
     Null}

\* enrichment indexes as parseCsv builds them: empty, keyed "eb" and "be",
\* keyed "eb" only
IndexPool ==
    {Obj(<<>>), parseCsv(SheetGood.v), parseCsv(<<CsvRow(<<"E", "b">>, "1")>>)}

\* the player of the fallback roster as the roster source would carry her
BergerPlayer ==
    Obj([playerStatus |-> Active, mediaFirstName |-> Txt(<<"Ann-Katrin">>),
         mediaLastName |-> Txt(<<"B", "e", "r", "g", "e", "r">>),
         roleLabel |-> Txt(<<"Goalkeeper">>), bibNumber |-> Num(30),
         nationality |-> Txt(<<"Germany">>)])

\* the indexes her entry is normalized against: those of IndexPool, none of
\* which has her key, and one keyed "berger"
BergerIndexes ==
    IndexPool \cup {parseCsv(<<CsvRow(<<"B", "e", "r", "g", "e", "r">>, "3")>>)}

\* entries of apiData.data.roster of the first revision of get-gotham-data.js
PersonPool ==
    {PersonEntryOf(<<"B">>, <<"E", "b">>, <<"Goalkeeper">>, 1),
     PersonEntryOf(<<"E">>, <<"E", "b">>, AttackingMidfielder, 2),
     PersonEntryOf(<<"b">>, <<"E", "b">>, DefensiveMidfielder, 3),
     PersonEntryOf(<<"e">>, <<"E", "b">>, Midfielder, 4),
     Obj([person |-> Obj([firstName |-> Txt(<<"B">>), lastName |-> Txt(<<"B", "e">>)]),
          jerseyNumber |-> Num(5)]),
     Obj([jerseyNumber |-> Num(6)]),
     PersonEntryOf(<<"E_acute">>, <<"B", "e">>, <<"Head", "Coach">>, 7),
     Obj([person |-> Obj([firstName |-> Txt(<<"B">>), lastName |-> Txt(<<"B", "e">>)]),
          position |-> Obj(<<>>), jerseyNumber |-> Num(8)])}

\* the lists over a pool of at most MaxPlayers entries
ListsOver(pool) == UNION {[1..n -> pool] : n \in 0..MaxPlayers}

\* how a team stat appears in a stats body: absent, present without its team
\* object, or present with a value
StatChoices ==
    {[k |-> "absent", v |-> 0], [k |-> "teamless", v |-> 0]}
    \cup {[k |-> "value", v |-> n] : n \in 0..MaxStat}

TeamStatOf(name, choice) ==
    CASE choice.k = "absent" -> <<>>
      [] choice.k = "teamless" -> <<Obj([name |-> Str(name)])>>
      [] choice.k = "value" -> <<TeamStat(name, choice.v)>>

\* the statsResponses processStatsData is called with
StatsResponsesOf(in) ==
    <<Obj([category |-> Str("standard"), data |-> PartGood("standard")]),
      Obj([category |-> Str("shooting"),
           data |-> StatsOf(<<LeaderStat("shots",
                                         <<Person(<<"E", "b">>, <<"B", "e">>, 30)>>)>>
                            \o TeamStatOf("penaltyKickAttempts", in.pkAttempts)
                            \o TeamStatOf("penaltyKickGoals", in.pkGoals))]),
      Obj([category |-> Str("passing"),
           data |-> StatsOf(TeamStatOf("successfulPasses", in.successfulPasses)
                            \o TeamStatOf("passesAttempted", in.passesAttempted))]),
      Obj([category |-> Str("defending"), data |-> PartGood("defending")]),
      Obj([category |-> Str("goalkeeping"), data |-> PartGood("goalkeeping")])>>

\* longest matches array the schedule normalizers are called with
MaxMatches == 3

KickOff == Str("2025-10-26T17:00:00Z")
THIRD_ID == Str("nwsl::Football_Team::third")

\* elements of apiData.matches as part_000 reads them: the team at home, the
\* team away (with a venue), a match of two other teams, a match lacking
\* its away team, one lacking its home team, an opponent without a name, null
MatchByIdPool ==
    {Obj([homeTeam |-> TeamById(GOTHAM_ID, "Gotham FC"),
          awayTeam |-> TeamById(OTHER_ID, "NC Courage"), matchDate |-> KickOff]),
     Obj([homeTeam |-> TeamById(OTHER_ID, "NC Courage"),
          awayTeam |-> TeamById(GOTHAM_ID, "Gotham FC"), matchDate |-> KickOff,
          venue |-> Obj([name |-> Str("WakeMed Soccer Park")])]),
     Obj([homeTeam |-> TeamById(OTHER_ID, "NC Courage"),
          awayTeam |-> TeamById(THIRD_ID, "Washington Spirit"),
          matchDate |-> KickOff]),
     Obj([homeTeam |-> TeamById(GOTHAM_ID, "Gotham FC"), matchDate |-> KickOff]),
     Obj([awayTeam |-> TeamById(GOTHAM_ID, "Gotham FC"), matchDate |-> KickOff]),
     Obj([homeTeam |-> TeamById(GOTHAM_ID, "Gotham FC"),
          awayTeam |-> Obj([teamId |-> OTHER_ID]), matchDate |-> KickOff]),
     Null}

\* a match of part_001 with the broadcaster slots given in slots
MatchBroadcastBy(home, away, slots) ==
    Obj([home |-> Side(home), away |-> Side(away),
         editorial |-> Obj([broadcasters |-> Obj(slots)]),
         matchDateUtc |-> KickOff,
         stadiumName |-> Str("Sports Illustrated Stadium")])

\* elements of apiData.matches as part_001 reads them: slots 1 and 2 set, no
\* slot set, slots 2 and 3 set, a match of two other teams, null, a match
\* lacking its away team, one lacking its broadcasters, one lacking its
\* home team
MatchByShortNamePool ==
    {MatchBroadcastBy("Gotham FC", "NC Courage",
                      [broadcasterNational1 |-> Txt(<<"CBS", "|", "logo">>),
                       broadcasterNational2 |-> Txt(<<"ESPN">>)]),
     MatchBroadcastBy("NC Courage", "Gotham FC", <<>>),
     MatchBroadcastBy("Gotham FC", "Washington Spirit",
                      [broadcasterNational2 |-> Txt(<<"ION">>),
                       broadcasterNational3 |-> Txt(<<"Prime", "|", "logo">>)]),
     MatchBroadcastBy("NC Courage", "Washington Spirit",
                      [broadcasterNational1 |-> Txt(<<"CBS", "|", "logo">>)]),
     Null,
     Obj([home |-> Side("Gotham FC"),
          editorial |-> Obj([broadcasters |-> Obj(<<>>)]),
          matchDateUtc |-> KickOff]),
     Obj([home |-> Side("Gotham FC"), away |-> Side("NC Courage"),
          editorial |-> Obj(<<>>), matchDateUtc |-> KickOff]),
     Obj([away |-> Side("Gotham FC"),
          editorial |-> Obj([broadcasters |-> Obj(<<>>)]),
          matchDateUtc |-> KickOff])}

Network(name) == Obj([network |-> Obj([name |-> Str(name)])])

\* elements of apiData.data.matches as the first revision of
\* get-gotham-data.js reads them: the team away with two broadcasts, the
\* team at home with none, a match of two other teams, null, a match
\* lacking its venue, one lacking its home team, a broadcast lacking its
\* network
MatchByNamePool ==
    {Obj([homeTeam |-> NamedTeam("NC Courage"),
          awayTeam |-> NamedTeam("NJ/NY Gotham FC"), matchDate |-> KickOff,
          venue |-> Obj([name |-> Str("WakeMed Soccer Park")]),
          broadcasts |-> Arr(<<Network("CBS"), Network("ESPN")>>)]),
     Obj([homeTeam |-> NamedTeam("NJ/NY Gotham FC"),
          awayTeam |-> NamedTeam("NC Courage"), matchDate |-> KickOff,
          venue |-> Obj([name |-> Str("Sports Illustrated Stadium")])]),
     Obj([homeTeam |-> NamedTeam("NC Courage"),
          awayTeam |-> NamedTeam("Washington Spirit"), matchDate |-> KickOff,
          venue |-> Obj([name |-> Str("WakeMed Soccer Park")])]),
     Null,
     Obj([homeTeam |-> NamedTeam("NJ/NY Gotham FC"),
          awayTeam |-> NamedTeam("NC Courage"), matchDate |-> KickOff]),
     Obj([awayTeam |-> NamedTeam("NJ/NY Gotham FC"), matchDate |-> KickOff,
          venue |-> Obj([name |-> Str("WakeMed Soccer Park")])]),
     Obj([homeTeam |-> NamedTeam("NJ/NY Gotham FC"),
          awayTeam |-> NamedTeam("NC Courage"), matchDate |-> KickOff,
          venue |-> Obj([name |-> Str("Sports Illustrated Stadium")]),
          broadcasts |-> Arr(<<Obj(<<>>)>>)])}

MatchListsOver(pool) == UNION {[1..n -> pool] : n \in 0..MaxMatches}

\* search results as processNewsData reads them, title and snippet as
\* sequences of words: the team named in the title, the league named in the
\* snippet only, an article naming neither, an article whose link is no URL
ArticlePool ==
    {Obj([title |-> Txt(<<"Gotham", "FC", "clinch", "playoff", "berth">>),
          snippet |-> Txt(<<"Match", "report">>),
          link |-> Str("https://www.espn.com/nwsl/gotham")]),
     Obj([title |-> Txt(<<"Transfer", "window", "opens">>),
          snippet |-> Txt(<<"NWSL", "clubs", "prepare">>),
          link |-> Str("https://theathletic.com/nwsl/")]),
     Obj([title |-> Txt(<<"Knicks", "win", "at", "home">>),
          snippet |-> Txt(<<"Basketball", "recap">>),
          link |-> Str("https://www.espn.com/nwsl/gotham")]),
     Obj([title |-> Txt(<<"Gotham", "FC", "sign", "forward">>),
          snippet |-> Txt(<<"Official", "statement">>),
          link |-> Str("not a url")])}

NormalizerNames ==
    {"processNWSLRosterData", "processNWSLRosterDataPerson", "processStatsData",
     "processNewsData",
     "processScheduleDataById", "processScheduleDataByShortName",
     "processScheduleDataByName"}

\* the arguments a normalizer is called with
NormalizerInputs(fn) ==
    CASE fn = "processNWSLRosterData" ->
           {[fn |-> fn, players |-> l, index |-> x, enrich |-> e] :
               l \in ListsOver(PlayerPool), x \in IndexPool, e \in BOOLEAN}
           \cup {[fn |-> fn, players |-> <<BergerPlayer>>, index |-> x,
                  enrich |-> e] : x \in BergerIndexes, e \in BOOLEAN}
      [] fn = "processNWSLRosterDataPerson" ->
           {[fn |-> fn, players |-> l] : l \in ListsOver(PersonPool)}
      [] fn = "processStatsData" ->
           {[fn |-> fn, pkAttempts |-> a, pkGoals |-> g,
             passesAttempted |-> b, successfulPasses |-> h] :
               a \in StatChoices, g \in StatChoices, b \in StatChoices,
               h \in StatChoices}
      [] fn = "processNewsData" ->
           {[fn |-> fn, articles |-> l] : l \in MatchListsOver(ArticlePool)}
      [] fn = "processScheduleDataById" ->
           {[fn |-> fn, matches |-> l] : l \in MatchListsOver(MatchByIdPool)}
      [] fn = "processScheduleDataByShortName" ->
           {[fn |-> fn, matches |-> l] :
               l \in MatchListsOver(MatchByShortNamePool)}
      [] fn = "processScheduleDataByName" ->
           {[fn |-> fn, matches |-> l] : l \in MatchListsOver(MatchByNamePool)}

InitNormalizers ==
    /\ \E fn \in NormalizerNames : input \in NormalizerInputs(fn)
    /\ output = Null
    /\ rev = "none"
    /\ pc = "call"
    /\ req = [src \in AllSources |-> "idle"]
    /\ resp = [src \in AllSources |-> "none"]
    /\ sent = [src \in AllSources |-> 0]
    /\ task = [t \in AllTasks |-> "idle"]
    /\ result = [t \in AllTasks |-> Undefined]
    /\ enrichmentData = Obj(<<>>)
    /\ response = PendingResponse

\* processNWSLRosterData(apiData, enrichmentData) of part_000 and part_001,
\* processNWSLRosterData(apiData) of the second revision of get-gotham-data.js
CallRoster ==
    /\ pc = "call"
    /\ input.fn = "processNWSLRosterData"
    /\ output' = processNWSLRosterData(Obj([players |-> Arr(input.players)]),
                                       input.index, input.enrich)
    /\ pc' = "return"
    /\ UNCHANGED <<rev, req, resp, sent, task, result, enrichmentData, response, input>>

\* processNWSLRosterData of the first revision of get-gotham-data.js
CallRosterPerson ==
    /\ pc = "call"
    /\ input.fn = "processNWSLRosterDataPerson"
    /\ output' = processNWSLRosterDataPerson(
                     Obj([data |-> Obj([roster |-> Arr(input.players)])]))
    /\ pc' = "return"
    /\ UNCHANGED <<rev, req, resp, sent, task, result, enrichmentData, response, input>>

\* processStatsData of the first revision of get-gotham-data.js
CallStats ==
    /\ pc = "call"
    /\ input.fn = "processStatsData"
    /\ output' = processStatsData(StatsResponsesOf(input))
    /\ pc' = "return"
    /\ UNCHANGED <<rev, req, resp, sent, task, result, enrichmentData, response, input>>

\* processScheduleData of part_000
CallScheduleById ==
    /\ pc = "call"
    /\ input.fn = "processScheduleDataById"
    /\ output' = processScheduleDataById(Obj([matches |-> Arr(input.matches)]))
    /\ pc' = "return"
    /\ UNCHANGED <<rev, req, resp, sent, task, result, enrichmentData, response, input>>

\* processScheduleData of part_001
CallScheduleByShortName ==
    /\ pc = "call"
    /\ input.fn = "processScheduleDataByShortName"
    /\ output' = processScheduleDataByShortName(
                     Obj([matches |-> Arr(input.matches)]))
    /\ pc' = "return"
    /\ UNCHANGED <<rev, req, resp, sent, task, result, enrichmentData, response, input>>

\* processScheduleData of the first revision of get-gotham-data.js
CallScheduleByName ==
    /\ pc = "call"
    /\ input.fn = "processScheduleDataByName"
    /\ output' = processScheduleDataByName(
                     Obj([data |-> Obj([matches |-> Arr(input.matches)])]))
    /\ pc' = "return"
    /\ UNCHANGED <<rev, req, resp, sent, task, result, enrichmentData, response, input>>

\* processNewsData of the first revision of get-gotham-data.js
CallNews ==
    /\ pc = "call"
    /\ input.fn = "processNewsData"
    /\ output' = processNewsData(Arr(input.articles))
    /\ pc' = "return"
    /\ UNCHANGED <<rev, req, resp, sent, task, result, enrichmentData, response, input>>

NextNormalizers ==
    \/ CallRoster \/ CallRosterPerson \/ CallStats \/ CallNews
    \/ CallScheduleById \/ CallScheduleByShortName \/ CallScheduleByName

SpecNormalizers == InitNormalizers /\ [][NextNormalizers]_vars

(***************************************************************************)
(* Properties of the normalizers                                           *)
(***************************************************************************)
NormalizerReturned(fn) == pc = "return" /\ input.fn = fn

\* an entry the roster normalizer keeps: active, both name fields, a role label
IsValidPlayer(p) ==
    /\ ~Nullish(p)
    /\ Get(p, "playerStatus") = Active
    /\ Truthy(Get(p, "mediaFirstName"))
    /\ Truthy(Get(p, "mediaLastName"))
    /\ Get(p, "roleLabel").t = "txt"

\* a malformed entry: an object lacking a name field
LacksNames(p) ==
    /\ ~Nullish(p)
    /\ ~Truthy(Get(p, "mediaFirstName")) \/ ~Truthy(Get(p, "mediaLastName"))

\* C7: called on a players list with N valid active entries and one entry
\* lacking the name fields, processNWSLRosterData returns exactly N entries,
\* those of the valid players in their input order.
C7_PartialListResilience ==
    (/\ NormalizerReturned("processNWSLRosterData")
     /\ Cardinality({i \in 1..Len(input.players) : LacksNames(input.players[i])}) = 1
     /\ \A i \in 1..Len(input.players) :
            LacksNames(input.players[i]) \/ IsValidPlayer(input.players[i]))
    => LET valid == SelectSeq(input.players, IsValidPlayer)
       IN  /\ IsArray(output)
           /\ Len(output.v) = Len(valid)
           /\ \A i \in 1..Len(valid) :
                 /\ Get(output.v[i], "name")
                      = Txt(Get(valid[i], "mediaFirstName").v \o <<" ">>
                            \o Get(valid[i], "mediaLastName").v)
                 /\ Get(output.v[i], "num") = Get(valid[i], "bibNumber")

\* two valid players around an entry lacking the name fields gave two entries
C7_TwoAroundMalformed ==
    /\ NormalizerReturned("processNWSLRosterData")
    /\ Len(input.players) = 3
    /\ IsValidPlayer(input.players[1])
    /\ LacksNames(input.players[2])
    /\ IsValidPlayer(input.players[3])
    /\ input.players[1] # input.players[3]
    /\ IsArray(output) /\ Len(output.v) = 2

\* the sheet row found under the normalized value of a name field, if any
KeyRow(player, field, index) ==
    LET key == normalizeName(Get(player, field))
    IN  IF key # <<>> THEN Get(index, key) ELSE Undefined

\* the row of the first of shirtName, shortName, mediaLastName in the index
PriorityRow(player, index) ==
    IF Truthy(KeyRow(player, "shirtName", index))
    THEN KeyRow(player, "shirtName", index)
    ELSE IF Truthy(KeyRow(player, "shortName", index))
    THEN KeyRow(player, "shortName", index)
    ELSE IF Truthy(KeyRow(player, "mediaLastName", index))
    THEN KeyRow(player, "mediaLastName", index)
    ELSE Obj(<<>>)

\* C8: every entry of the enriching roster normalizer carries the headshot
\* and page URL of the row found under the first of the normalized keys
\* shirtName, shortName, mediaLastName present in the index, and null when
\* none is present.
C8_EnrichmentPriority ==
    (/\ NormalizerReturned("processNWSLRosterData")
     /\ input.enrich
     /\ \A i \in 1..Len(input.players) : IsValidPlayer(input.players[i]))
    => /\ IsArray(output)
       /\ Len(output.v) = Len(input.players)
       /\ \A i \in 1..Len(input.players) :
             LET row == PriorityRow(input.players[i], input.index)
             IN  /\ Get(output.v[i], "headshot")
                      = OrElse(Get(row, "headshotUrl"), Null)
                 /\ Get(output.v[i], "pageUrl")
                      = OrElse(Get(row, "playerPageUrl"), Null)

\* a player whose shirtName and mediaLastName are keys of different rows got
\* the headshot of the shirtName row
C8_TwoKeysMatch ==
    /\ NormalizerReturned("processNWSLRosterData")
    /\ input.enrich
    /\ IsArray(output)
    /\ Len(output.v) = Len(input.players)
    /\ \E i \in 1..Len(input.players) :
          LET byShirt == KeyRow(input.players[i], "shirtName", input.index)
              byLast == KeyRow(input.players[i], "mediaLastName", input.index)
          IN  /\ Truthy(byShirt) /\ Truthy(byLast)
              /\ Get(byShirt, "headshotUrl") # Get(byLast, "headshotUrl")
              /\ Get(output.v[i], "headshot") = Get(byShirt, "headshotUrl")

MidfieldRoles == {AttackingMidfielder, DefensiveMidfielder, Midfielder}

\* C9: a player whose role label is "Attacking Midfielder", "Defensive
\* Midfielder" or "Midfielder" gets the position code "MF", in the roster
\* normalizer of every revision.
C9_RoleCollapse ==
    /\ NormalizerReturned("processNWSLRosterData") /\ output # Thrown
       => LET valid == SelectSeq(input.players, IsValidPlayer)
          IN  /\ Len(output.v) = Len(valid)
              /\ \A i \in 1..Len(valid) :
                    Get(valid[i], "roleLabel").v \in MidfieldRoles
                    => Get(output.v[i], "pos") = Str("MF")
    /\ NormalizerReturned("processNWSLRosterDataPerson") /\ output # Thrown
       => /\ Len(output.v) = Len(input.players)
          /\ \A i \in 1..Len(input.players) :
                (/\ Truthy(Get(input.players[i], "position"))
                 /\ Get(Get(input.players[i], "position"), "name").v \in MidfieldRoles)
                => Get(output.v[i], "pos") = Str("MF")

\* an attacking, a defensive and a plain midfielder were normalized together
\* and all three entries carry "MF"
C9_ThreeMidfielders ==
    /\ pc = "return"
    /\ input.fn \in {"processNWSLRosterData", "processNWSLRosterDataPerson"}
    /\ Len(input.players) = 3
    /\ IsArray(output) /\ Len(output.v) = 3
    /\ \A role \in MidfieldRoles :
          \E i \in 1..3 :
             IF input.fn = "processNWSLRosterData"
             THEN Get(input.players[i], "roleLabel") = Txt(role)
             ELSE Get(Get(input.players[i], "position"), "name") = Txt(role)
    /\ \A i \in 1..3 : Get(output.v[i], "pos") = Str("MF")

\* the derived percentage under key, for the team stats num and den as the
\* body carried them
PercentageGuarded(key, num, den) ==
    /\ key \in DOMAIN output.v
       => /\ den.k = "value" /\ den.v > 0
          /\ num.k = "value"
          /\ LET total == Get(output.v[key], "total")
             IN  /\ total.t = "frac"
                 /\ total.d # 0
                 /\ total.n * den.v = num.v * 100 * total.d
    /\ den.k = "value" /\ den.v = 0 => key \notin DOMAIN output.v

\* C10: penaltyKickPercentage and passingAccuracy are in the stats output
\* only when the denominator stat is greater than 0, and then equal
\* numerator / denominator * 100; with a denominator of 0 the field is left
\* out.
C10_PercentageGuard ==
    NormalizerReturned("processStatsData") /\ output # Thrown
    => /\ PercentageGuarded("penaltyKickPercentage", input.pkGoals, input.pkAttempts)
       /\ PercentageGuarded("passingAccuracy", input.successfulPasses,
                            input.passesAttempted)

\* penalty kicks were attempted and the percentage is there, no pass was
\* attempted and the accuracy is left out
C10_OnePresentOneOmitted ==
    /\ NormalizerReturned("processStatsData")
    /\ output # Thrown
    /\ input.pkAttempts = [k |-> "value", v |-> 2]
    /\ input.pkGoals = [k |-> "value", v |-> 1]
    /\ Get(Get(output, "penaltyKickPercentage"), "total") = Frac(100, 2)
    /\ input.passesAttempted = [k |-> "value", v |-> 0]
    /\ input.successfulPasses.k = "value"
    /\ "passingAccuracy" \notin DOMAIN output.v

\* the index has a row under none of the player's candidate keys
NoMatchingKey(player, index) ==
    \A field \in {"shirtName", "shortName", "mediaLastName"} :
        ~Truthy(KeyRow(player, field, index))

\* C11: normalized against an index without a matching key, the roster of the
\* one active player Ann-Katrin Berger (Goalkeeper, 30, Germany) is exactly
\* one entry {name "Ann-Katrin Berger", pos "GK", num 30, bio "Goalkeeper
\* from Germany", headshot null, pageUrl null}.
C11_BergerScenario ==
    (/\ NormalizerReturned("processNWSLRosterData")
     /\ input.enrich
     /\ input.players = <<BergerPlayer>>
     /\ NoMatchingKey(BergerPlayer, input.index))
    => output = Arr(<<Obj([name |-> Txt(<<"Ann-Katrin", " ",
                                          "B", "e", "r", "g", "e", "r">>),
                           pos |-> Str("GK"),
                           num |-> Num(30),
                           bio |-> Txt(<<"Goalkeeper", "from", "Germany">>),
                           headshot |-> Null,
                           pageUrl |-> Null])>>)

\* her entry was normalized against a sheet that has rows, none under her key
C11_BergerAgainstOtherRows ==
    /\ NormalizerReturned("processNWSLRosterData")
    /\ input.enrich
    /\ input.players = <<BergerPlayer>>
    /\ DOMAIN input.index.v # {}
    /\ NoMatchingKey(BergerPlayer, input.index)
    /\ IsArray(output) /\ Len(output.v) = 1
    /\ Get(output.v[1], "headshot") = Null

\* the part of a broadcaster slot's value before its first "|"
SlotName(value) ==
    LET bars == {i \in 1..Len(value) : value[i] = "|"}
    IN  IF bars = {} THEN value
        ELSE SubSeq(value, 1, (CHOOSE i \in bars : \A j \in bars : i <= j) - 1)

\* the joined names extended by one slot, when the slot is present
WithSlot(joined, broadcasters, slot) ==
    IF ~Truthy(Get(broadcasters, slot)) THEN joined
    ELSE IF joined = <<>> THEN SlotName(Get(broadcasters, slot).v)
    ELSE joined \o <<", ">> \o SlotName(Get(broadcasters, slot).v)

\* names of the slots present, in slot order, joined with ", ", else "TBD"
BroadcastOf(match) ==
    LET b == Get(Get(match, "editorial"), "broadcasters")
        joined == WithSlot(WithSlot(WithSlot(<<>>, b, "broadcasterNational1"),
                                    b, "broadcasterNational2"),
                           b, "broadcasterNational3")
    IN  IF joined = <<>> THEN Txt(<<"TBD">>) ELSE Txt(joined)

\* the matches of the list the team plays in, by the short names of the sides
TeamMatchesByShortName(matches) ==
    SelectSeq(matches,
              LAMBDA m : \/ Get(Get(m, "home"), "shortName") = Str("Gotham FC")
                         \/ Get(Get(m, "away"), "shortName") = Str("Gotham FC"))

\* C12: every schedule entry produced from live data has a broadcast field
\* holding a string, in part_000 and in part_001; where the match carries
\* broadcaster slots (part_001) it is the names of the slots present, in
\* slot order, joined with ", ", or "TBD" when none is present.
C12_BroadcastAlwaysPresent ==
    /\ \A fn \in {"processScheduleDataById", "processScheduleDataByShortName"} :
        (NormalizerReturned(fn) /\ IsArray(output))
        => \A i \in 1..Len(output.v) :
              /\ "broadcast" \in DOMAIN output.v[i].v
              /\ output.v[i].v.broadcast.t \in {"str", "txt"}
    /\ (NormalizerReturned("processScheduleDataByShortName") /\ IsArray(output))
       => \A i \in 1..Len(output.v) :
             Get(output.v[i], "broadcast")
                = BroadcastOf(TeamMatchesByShortName(input.matches)[i])

\* a match the schedule normalizer of part_001 can turn into an entry
IsValidMatchByShortName(m) ==
    /\ ~Nullish(m)
    /\ ~Nullish(Get(m, "home")) /\ ~Nullish(Get(m, "away"))
    /\ ~Nullish(Get(Get(m, "editorial"), "broadcasters"))
    /\ \/ Get(Get(m, "home"), "shortName") = Str("Gotham FC")
       \/ Get(Get(m, "away"), "shortName") = Str("Gotham FC")

\* a match the schedule normalizer of part_000 can turn into an entry
IsValidMatchById(m) ==
    /\ ~Nullish(m)
    /\ ~Nullish(Get(m, "homeTeam")) /\ ~Nullish(Get(m, "awayTeam"))
    /\ \/ Get(Get(m, "homeTeam"), "teamId") = GOTHAM_ID
       \/ Get(Get(m, "awayTeam"), "teamId") = GOTHAM_ID

\* the positions of the list whose elements are valid for the normalizer
\* that was called
ValidPositions ==
    CASE input.fn = "processNWSLRosterData" ->
            {i \in 1..Len(input.players) : IsValidPlayer(input.players[i])}
      [] input.fn = "processScheduleDataByShortName" ->
            {i \in 1..Len(input.matches) : IsValidMatchByShortName(input.matches[i])}
      [] input.fn = "processScheduleDataById" ->
            {i \in 1..Len(input.matches) : IsValidMatchById(input.matches[i])}
      [] OTHER -> {}

\* C13: when a roster or schedule list has at least one valid entry, entries
\* that cannot be parsed (a null element, a match lacking a team object or
\* its broadcasters, a player lacking roleLabel) are skipped: the normalizer
\* returns a list with one entry per valid element, it neither raises nor
\* returns the empty list.
C13_BadEntrySkipped ==
    (/\ pc = "return"
     /\ input.fn \in {"processNWSLRosterData", "processScheduleDataByShortName",
                      "processScheduleDataById"}
     /\ ValidPositions # {})
    => /\ IsArray(output)
       /\ Len(output.v) = Cardinality(ValidPositions)

PosCodes == {Str("GK"), Str("DF"), Str("MF"), Str("FW"), Str("N/A")}

\* the role labels the position map knows, the collapsed ones included
RecognizedRoles ==
    {<<"Goalkeeper">>, <<"Defender">>, <<"Midfielder">>, <<"Forward">>,
     AttackingMidfielder, DefensiveMidfielder}

\* the place in the output of the valid player at position i of the list
RankOfPlayer(i) ==
    Cardinality({j \in 1..i : IsValidPlayer(input.players[j])})

\* C14: every emitted roster entry has pos in {GK, DF, MF, FW, N/A}; an
\* active, named player whose role label is not a recognized role is emitted
\* with pos "N/A"; whatever the role labels are, the roster normalizer
\* returns a list (part_000 and the first revision of get-gotham-data.js,
\* on lists whose elements are objects, with a person where the code reads
\* one).
C14_PosAlwaysCoded ==
    /\ (/\ NormalizerReturned("processNWSLRosterData")
        /\ \A i \in 1..Len(input.players) : ~Nullish(input.players[i]))
       => /\ IsArray(output)
          /\ \A k \in 1..Len(output.v) : Get(output.v[k], "pos") \in PosCodes
          /\ \A i \in 1..Len(input.players) :
                (/\ IsValidPlayer(input.players[i])
                 /\ Get(input.players[i], "roleLabel").v \notin RecognizedRoles)
                => Get(output.v[RankOfPlayer(i)], "pos") = Str("N/A")
    /\ (/\ NormalizerReturned("processNWSLRosterDataPerson")
        /\ \A i \in 1..Len(input.players) :
              ~Nullish(Get(input.players[i], "person")))
       => /\ IsArray(output)
          /\ Len(output.v) = Len(input.players)
          /\ \A i \in 1..Len(input.players) :
                /\ Get(output.v[i], "pos") \in PosCodes
                /\ Get(Get(input.players[i], "position"), "name")
                      \notin {Txt(r) : r \in RecognizedRoles}
                   => Get(output.v[i], "pos") = Str("N/A")

\* a list element carrying everything the schedule normalizer reads
WellFormedById(m) ==
    ~Nullish(m) /\ ~Nullish(Get(m, "homeTeam")) /\ ~Nullish(Get(m, "awayTeam"))

WellFormedByShortName(m) ==
    /\ ~Nullish(m) /\ ~Nullish(Get(m, "home")) /\ ~Nullish(Get(m, "away"))
    /\ ~Nullish(Get(Get(m, "editorial"), "broadcasters"))

\* the matches of the list the team plays in, by the ids of the sides
TeamMatchesById(matches) ==
    SelectSeq(matches,
              LAMBDA m : \/ Get(Get(m, "homeTeam"), "teamId") = GOTHAM_ID
                         \/ Get(Get(m, "awayTeam"), "teamId") = GOTHAM_ID)

\* C15: on a list of well-formed matches the schedule normalizers of
\* part_000 and part_001 return one entry per match the team plays in, in
\* list order, and none for any other match; in each entry home is true
\* exactly when the team is the home side, and opponent is the name of the
\* other side, never the team's own name.
C15_ExactlyTeamMatches ==
    /\ (/\ NormalizerReturned("processScheduleDataById")
        /\ \A i \in 1..Len(input.matches) : WellFormedById(input.matches[i]))
       => /\ IsArray(output)
          /\ Len(output.v) = Len(TeamMatchesById(input.matches))
          /\ \A i \in 1..Len(output.v) :
                LET m == TeamMatchesById(input.matches)[i]
                    atHome == Get(Get(m, "homeTeam"), "teamId") = GOTHAM_ID
                    other == IF atHome THEN Get(m, "awayTeam")
                             ELSE Get(m, "homeTeam")
                IN  /\ Get(output.v[i], "home") = Bool(atHome)
                    /\ Get(output.v[i], "opponent") # Str("Gotham FC")
                    /\ Truthy(Get(other, "teamName"))
                       => Get(output.v[i], "opponent") = Get(other, "teamName")
    /\ (/\ NormalizerReturned("processScheduleDataByShortName")
        /\ \A i \in 1..Len(input.matches) :
              WellFormedByShortName(input.matches[i]))
       => /\ IsArray(output)
          /\ Len(output.v) = Len(TeamMatchesByShortName(input.matches))
          /\ \A i \in 1..Len(output.v) :
                LET m == TeamMatchesByShortName(input.matches)[i]
                    atHome == Get(Get(m, "home"), "shortName") = Str("Gotham FC")
                    other == IF atHome THEN Get(m, "away") ELSE Get(m, "home")
                IN  /\ Get(output.v[i], "home") = Bool(atHome)
                    /\ Get(output.v[i], "opponent") # Str("Gotham FC")
                    /\ Get(output.v[i], "opponent") = Get(other, "shortName")

\* a home match, a match of two other teams and an away match were
\* normalized to a home entry followed by an away entry
C15_HomeOtherAway ==
    /\ NormalizerReturned("processScheduleDataById")
    /\ Len(input.matches) = 3
    /\ \A i \in 1..3 : WellFormedById(input.matches[i])
    /\ Get(Get(input.matches[1], "homeTeam"), "teamId") = GOTHAM_ID
    /\ Get(Get(input.matches[2], "homeTeam"), "teamId") # GOTHAM_ID
    /\ Get(Get(input.matches[2], "awayTeam"), "teamId") # GOTHAM_ID
    /\ Get(Get(input.matches[3], "awayTeam"), "teamId") = GOTHAM_ID
    /\ IsArray(output) /\ Len(output.v) = 2
    /\ Get(output.v[1], "home") = Bool(TRUE)
    /\ Get(output.v[2], "home") = Bool(FALSE)
    /\ Get(output.v[2], "opponent") = Str("NC Courage")

(***************************************************************************)
(* Properties of the handler's scheduling                                  *)
(***************************************************************************)
\* the handler of this revision builds an enrichment index
BuildsIndex == rev \in {"part_000", "part_001"}

\* C16: the enrichment index is built by a single sheet fetch that has
\* completed before the roster is requested and normalized; when that fetch
\* answers with a non-success status, rejects or cannot be read, the index
\* is the empty mapping and the handler goes on: it requests every category
\* once and returns with every category task settled.
C16_IndexBuiltFirst ==
    BuildsIndex =>
        /\ sent["csv"] <= 1
        /\ req["roster"] # "idle" => task["csv"] = "settled"
        /\ task["csv"] = "settled" => pc \notin {"start", "awaitCsv"}
        /\ FetchFailed("csv") =>
              /\ result["csv"] = Obj(<<>>)
              /\ enrichmentData = Obj(<<>>)
              /\ response.state # "rejected"
              /\ \A src \in SourcesOf(rev, FanOut(rev)) : sent[src] = 1
              /\ pc = "done" =>
                    /\ Fulfilled
                    /\ sent["roster"] = 1
                    /\ \A c \in CategoryKeys : task[c] = "settled"

\* the sheet answered with a non-success status and the handler returned the
\* live roster, without headshots
C16_LiveRosterWithoutIndex ==
    /\ BuildsIndex
    /\ Fulfilled
    /\ resp["csv"] = "status"
    /\ resp["roster"] = "good"
    /\ IsArray(Out("roster")) /\ Len(Out("roster").v) > 0
    /\ Out("roster") # Json(Fallback(rev, "roster"))
    /\ \A i \in 1..Len(Out("roster").v) : Get(Out("roster").v[i], "headshot") = Null

\* every request of every category has been issued
AllCategoriesRequested ==
    \A src \in SourcesOf(rev, CategoryKeys) : sent[src] >= 1

\* C17: in the handlers that build an enrichment index, the requests of all
\* four categories (roster, schedule, stats, standings) are issued together
\* once the index is built: whenever the index has been built every
\* category has been requested, so no category's task has completed while
\* another category has not been requested yet.
C17_FannedOutTogether ==
    BuildsIndex =>
        /\ task["csv"] = "settled" => AllCategoriesRequested
        /\ \A c \in CategoryKeys :
              task[c] = "settled" => AllCategoriesRequested

\* the categories whose task issues a single request
SingleRequestKeys(r) ==
    {c \in OutputKeys(r) : TaskSources(r, c) = {c}}

TaskOutcome(r, p, c) ==
    LET index == IF r = "get1" THEN Obj(<<>>)
                 ELSE fetchCsvData(Answer(r, "csv", p["csv"]))
    IN  CASE c = "news" -> fetchLiveNews(r, Answer(r, "news", p["news"]))
          [] c = "stats" /\ StatsParts(r) # <<>> -> fetchAllStats(r, p)
          [] OTHER -> fetchAndProcess(r, c, Answer(r, c, p[c]), index)

\* the value the handler puts under a key, given the outcome of the key's
\* own task: the outcome itself, but for the schedule of part_000, where an
\* empty list is replaced by the fallback schedule
KeyValue(r, c, outcome) ==
    IF r = "part_000" /\ c = "schedule"
       /\ ~(Truthy(outcome) /\ IsArray(outcome) /\ Len(outcome.v) > 0)
    THEN Fallback(r, c)
    ELSE outcome

\* C19: the returned body is determined by what each source answered, not by
\* the order in which the category tasks completed: whatever the order, each
\* key of the body holds the value derived from the outcome of its own
\* category's task, and the body has no key outside the schema.
C19_OrderIndependent ==
    Fulfilled =>
        /\ DOMAIN response.body.v \subseteq OutputKeys(rev) \cup {"social"}
        /\ \A c \in OutputKeys(rev) :
              Out(c) = Json(KeyValue(rev, c, TaskOutcome(rev, resp, c)))

\* the handler of the first revision of get-gotham-data.js returned after
\* the schedule source failed and every other source answered well
C19_MixedOutcomesReturned ==
    /\ Fulfilled
    /\ rev = "get1"
    /\ resp["schedule"] = "neterr"
    /\ \A src \in SourcesOf(rev, FanOut(rev)) \ {"schedule"} : resp[src] = "good"
    /\ Out("schedule") = Json(Fallback(rev, "schedule"))
    /\ Out("roster") = Json(TaskOutcome(rev, resp, "roster"))
    /\ Out("roster") # Out("schedule")

Silent(src) == req[src] = "silent"

\* C20: every outbound call is bounded in time: when a source never answers
\* a request, the handler still returns its response in the end.
C20_ReturnsDespiteSilence ==
    (\E src \in AllSources : Silent(src)) ~> Fulfilled

Keywords == {"Gotham", "NWSL"}

\* the text contains a keyword
MentionsKeyword(text) ==
    text.t = "txt" /\ \E i \in 1..Len(text.v) : text.v[i] \in Keywords

\* C22: every item of the news list made from a search result has a title
\* or a snippet containing at least one keyword, and the list has exactly
\* one item per search result that contains one: results matching no
\* keyword are left out.
C22_NewsKeywordFilter ==
    (NormalizerReturned("processNewsData") /\ IsArray(output))
    => /\ \A i \in 1..Len(output.v) :
             \/ MentionsKeyword(Get(output.v[i], "title"))
             \/ MentionsKeyword(Get(output.v[i], "snippet"))
       /\ Len(output.v) =
             Cardinality({i \in 1..Len(input.articles) :
                            \/ MentionsKeyword(Get(input.articles[i], "title"))
                            \/ MentionsKeyword(Get(input.articles[i], "snippet"))})

\* the handler of this revision fetches the stats through fetchAllStats
UsesFetchAllStats == StatsParts(rev) # <<>>

\* per revision with a fetchAllStats, the stats normalized from well-formed
\* answers of every sub-category
LiveStats ==
    [r \in {"part_001", "get1"} |->
        StatsProcessed(r, [src \in AllSources |-> "good"])]

\* C23: in fetchAllStats, as soon as one sub-category request rejects or
\* delivers an undecodable body the stats task holds the stats fallback,
\* which carries none of the live lists of the sub-categories that
\* succeeded, and the returned body holds that fallback; the task holds
\* anything else only when every sub-category request has resolved.
C23_StatsAllOrNothing ==
    UsesFetchAllStats =>
        /\ (\E part \in PartSet(rev) : PartRejects(resp[part]))
           => /\ task["stats"] = "settled"
              /\ result["stats"] = Fallback(rev, "stats")
              /\ \A k \in DOMAIN LiveStats[rev].v :
                    Get(result["stats"], k) # LiveStats[rev].v[k]
              /\ Fulfilled => Out("stats") = Json(Fallback(rev, "stats"))
        /\ (task["stats"] = "settled" /\ result["stats"] # Fallback(rev, "stats"))
           => \A part \in PartSet(rev) :
                 resp[part] # "none" /\ ~PartRejects(resp[part])
        /\ task["stats"] = "pending"
           => \E part \in PartSet(rev) : resp[part] = "none"

\* the handler returned the stats fallback after one sub-category request
\* met a network error and another had answered well
C23_OneRejectedOneResolved ==
    /\ Fulfilled
    /\ rev = "get1"
    /\ resp["shooting"] = "neterr"
    /\ resp["standard"] = "good"
    /\ Out("stats") = Json(Fallback(rev, "stats"))
    /\ Get(Out("stats"), "shotLeaders") = Undefined

====
